---- MODULE Spec2Model ----
(***************************************************************************)
(* Gravity - Quota Guard.                                                  *)
(*                                                                         *)
(* A model of the QuotaGuard class (guard/quota_guard.ts) and of the way   *)
(* the extension drives it.  Percentages are fixed-point numbers in tenths *)
(* of a percentage point (1.5% is 15, 100% is 1000), times are in          *)
(* milliseconds.  An optional value (`x?: T`, `T | undefined`) is a        *)
(* sequence of length at most one: None or Some(v).                        *)
(***************************************************************************)
EXTENDS Integers, Sequences, FiniteSets, TLC

VARIABLES
    lastSnapshot,          \* QuotaGuard.lastSnapshot?: QuotaSnapshot
    config,                \* QuotaGuard.config: GravityConfig
    guardState,            \* QuotaGuard.guardState: GuardState
    acknowledgments,       \* QuotaGuard.acknowledgments: Map<id, ack>
    lastSeenPercentages,   \* QuotaGuard.lastSeenPercentages: Map<id, number>
    lastBlockShown,        \* QuotaGuard.lastBlockShown
    now,                   \* Date.now()
    pending,               \* checkAndWarn calls suspended at their `await`
    staleAcks,             \* history: ids whose acknowledgment was recorded by
                           \* a call that was evaluated before a later reset
    severeAcks,            \* history: per id, the level of the latest critical or
                           \* blocked acknowledgment recorded, by a call not
                           \* overtaken by a reset, since the id's
                           \* acknowledgment was last cleared by a reset
    clearedAcks,           \* history: per id, the level and percentage of the
                           \* acknowledgment the latest updateSnapshot deleted,
                           \* until the next checkAndWarn
    ret,                   \* the operation just performed and what it returned
    strategy,              \* ProcessFinder.strategy: "windows" or "unix"
    detections,            \* detectProcessInfo calls suspended at an `await`
    isInitialized,         \* extension.ts: isInitialized
    quotaManager,          \* QuotaManager: port, csrfToken, lastSnapshot, pollingTimer
    timers,                \* the interval timers that are set and not cleared
    requests,              \* fetchQuota calls awaiting their response
    initCalls,             \* initializeExtension calls awaiting the 'Retry' prompt
    statusBar,             \* what the status bar item shows
    settings,              \* the gravity.* settings ConfigManager.getConfig reads
    resultsUsed,           \* history: discovery results used since the last
                           \* activation or reconnect
    callers                \* how many checkAndWarn calls the callers of the
                           \* guard can have awaiting a prompt at one time

vars == << lastSnapshot, config, guardState, acknowledgments,
           lastSeenPercentages, lastBlockShown, now, pending, staleAcks,
           severeAcks, clearedAcks, ret, strategy, detections, isInitialized,
           quotaManager, timers, requests, initCalls, statusBar, settings,
           resultsUsed, callers >>

\* Everything outside the QuotaGuard object.
hostVars == << strategy, detections, isInitialized, quotaManager, timers,
              requests, initCalls, statusBar, settings, resultsUsed, callers >>

----------------------------------------------------------------------------
(* Optional values *)

None == << >>
Some(v) == << v >>
OrDefault(o, d) == IF o = None THEN d ELSE o[1]

----------------------------------------------------------------------------
(* Program constants (percentages in tenths of a point, times in ms) *)

blockCooldown == 15000
ResetJump == 20
DefaultPct == 1000
AckDefaultPct == 0
InitialLowestQuota == 1000
WarningRealertMs == 600000
SignificantDrop == 50
WarningAckMaxAge == 3600000

PROMPT_CREDITS == "prompt_credits"

levelOrder(level) ==
    CASE level = "normal" -> 0
      [] level = "warning" -> 1
      [] level = "critical" -> 2
      [] level = "blocked" -> 3

----------------------------------------------------------------------------
(* The bounded universe of inputs *)

ModelIds == {"m1", "m2"}
Ids == ModelIds \cup {PROMPT_CREDITS}

MaxPending == 1

----------------------------------------------------------------------------
(* QuotaGuard: pure helpers *)

\* A ModelQuotaInfo reduced to the fields the guard's decisions read.
ModelQuotaInfo(id, pct) == [modelId |-> id, remainingPercentage |-> pct]

\* The virtual model built for the prompt-credits pool.
pcVirtualModel(pcPct) == ModelQuotaInfo(PROMPT_CREDITS, Some(pcPct))

\* Variant of pctOf: an absent percentage read as 0, as getSummaryMessage does.
pctOf_defaultZero(model) == OrDefault(model.remainingPercentage, AckDefaultPct)

\* `model.remainingPercentage ?? 100`
pctOf(model) == OrDefault(model.remainingPercentage, DefaultPct)

\* Variant of IsReset: a jump of exactly 2.0 does not count.
IsReset_strict(lastPct, currentPct) ==
    lastPct /= None /\ currentPct > lastPct[1] + ResetJump

\* The reset test of updateSnapshot: `lastPct !== undefined && currentPct >= lastPct + 2.0`
IsReset(lastPct, currentPct) ==
    lastPct /= None /\ currentPct >= lastPct[1] + ResetJump

\* The level analyzeQuotaState derives from lowestQuota.
analyzeLevel(lowestQuota, cfg) ==
    IF lowestQuota <= 0 THEN "blocked"
    ELSE IF lowestQuota <= cfg.blockThreshold THEN "critical"
    ELSE IF lowestQuota <= cfg.warningThreshold THEN "warning"
    ELSE "normal"

\* Variant of analyzeStep: warningThreshold itself is not at risk.
analyzeStep_exclusive(acc, model, cfg) ==
    LET pct == pctOf(model)
        lower == pct < acc.lowestQuota
    IN  [ lowestQuota      |-> IF lower THEN pct ELSE acc.lowestQuota,
          lowestQuotaModel |-> IF lower THEN Some(model) ELSE acc.lowestQuotaModel,
          modelsAtRisk     |-> IF pct < cfg.warningThreshold
                               THEN Append(acc.modelsAtRisk, model)
                               ELSE acc.modelsAtRisk ]

\* One iteration of either loop body of analyzeQuotaState.
analyzeStep(acc, model, cfg) ==
    LET pct == pctOf(model)
        lower == pct < acc.lowestQuota
    IN  [ lowestQuota      |-> IF lower THEN pct ELSE acc.lowestQuota,
          lowestQuotaModel |-> IF lower THEN Some(model) ELSE acc.lowestQuotaModel,
          modelsAtRisk     |-> IF pct <= cfg.warningThreshold
                               THEN Append(acc.modelsAtRisk, model)
                               ELSE acc.modelsAtRisk ]

RECURSIVE analyzeModels(_, _, _, _)
analyzeModels(models, i, acc, cfg) ==
    IF i > Len(models) THEN acc
    ELSE analyzeModels(models, i + 1, analyzeStep(acc, models[i], cfg), cfg)

analyzeQuotaState(snapshot, cfg) ==
    LET acc0 == [ lowestQuota |-> InitialLowestQuota,
                  lowestQuotaModel |-> None,
                  modelsAtRisk |-> << >> ]
        acc1 == analyzeModels(snapshot.models, 1, acc0, cfg)
        acc2 == IF snapshot.promptCredits /= None
                THEN analyzeStep(acc1,
                       pcVirtualModel(snapshot.promptCredits[1].remainingPercentage), cfg)
                ELSE acc1
    IN  [ level            |-> analyzeLevel(acc2.lowestQuota, cfg),
          modelsAtRisk     |-> acc2.modelsAtRisk,
          lowestQuota      |-> acc2.lowestQuota,
          lowestQuotaModel |-> acc2.lowestQuotaModel,
          guardActive      |-> cfg.guardEnabled ]

\* Array.prototype.filter with the at-risk predicate.
RECURSIVE filterAtRisk(_, _, _)
filterAtRisk(models, i, cfg) ==
    IF i > Len(models) THEN << >>
    ELSE IF pctOf(models[i]) <= cfg.warningThreshold
         THEN << models[i] >> \o filterAtRisk(models, i + 1, cfg)
         ELSE filterAtRisk(models, i + 1, cfg)

getModelsRequiringAttention(snap, cfg) ==
    IF snap = None THEN << >>
    ELSE LET atRisk == filterAtRisk(snap[1].models, 1, cfg)
             pc == snap[1].promptCredits
         IN  IF pc /= None /\ pc[1].remainingPercentage <= cfg.warningThreshold
             THEN Append(atRisk, pcVirtualModel(pc[1].remainingPercentage))
             ELSE atRisk

\* Variant of worseOf: among equal percentages the later entry wins.
worseOf_lastWins(worst, current) ==
    IF pctOf(current) <= pctOf(worst) THEN current ELSE worst

\* The reducer of checkAndWarn: `currentPct < worstPct ? current : worst`
worseOf(worst, current) ==
    IF pctOf(current) < pctOf(worst) THEN current ELSE worst

\* Array.prototype.reduce without an initial value, on a non-empty array.
RECURSIVE reduceFrom(_, _, _)
reduceFrom(models, i, worst) ==
    IF i > Len(models) THEN worst
    ELSE reduceFrom(models, i + 1, worseOf(worst, models[i]))

worstModelOf(models) == reduceFrom(models, 2, models[1])

\* Variant of checkModel: both thresholds exclusive.
checkModel_exclusive(model, cfg) ==
    LET pct == pctOf(model)
    IN  IF pct <= 0
        THEN [ level |-> "blocked", shouldWarn |-> FALSE, shouldBlock |-> TRUE, model |-> model ]
        ELSE IF pct < cfg.blockThreshold
        THEN [ level |-> "critical", shouldWarn |-> FALSE, shouldBlock |-> TRUE, model |-> model ]
        ELSE IF pct < cfg.warningThreshold
        THEN [ level |-> "warning", shouldWarn |-> TRUE, shouldBlock |-> FALSE, model |-> model ]
        ELSE [ level |-> "normal", shouldWarn |-> FALSE, shouldBlock |-> FALSE, model |-> model ]

checkModel(model, cfg) ==
    LET pct == pctOf(model)
    IN  IF pct <= 0
        THEN [ level |-> "blocked", shouldWarn |-> FALSE, shouldBlock |-> TRUE, model |-> model ]
        ELSE IF pct <= cfg.blockThreshold
        THEN [ level |-> "critical", shouldWarn |-> FALSE, shouldBlock |-> TRUE, model |-> model ]
        ELSE IF pct <= cfg.warningThreshold
        THEN [ level |-> "warning", shouldWarn |-> TRUE, shouldBlock |-> FALSE, model |-> model ]
        ELSE [ level |-> "normal", shouldWarn |-> FALSE, shouldBlock |-> FALSE, model |-> model ]

\* Variant of shouldShowAlert: nothing is shown for a model never acknowledged.
shouldShowAlert_needsAck(check, acks, t) ==
    LET ack == acks[check.model.modelId]
    IN  IF ack = None THEN FALSE
        ELSE IF levelOrder(check.level) > levelOrder(ack[1].level) THEN TRUE
        ELSE IF check.level = "critical" \/ check.level = "blocked" THEN FALSE
        ELSE \/ t - ack[1].timestamp > WarningRealertMs
             \/ ack[1].percentage
                   - OrDefault(check.model.remainingPercentage, AckDefaultPct)
                 > SignificantDrop

\* Variant of shouldShowAlert: an escalation does not break through.
shouldShowAlert_noEscalation(check, acks, t) ==
    LET ack == acks[check.model.modelId]
    IN  IF ack = None THEN TRUE
        ELSE IF check.level = "critical" \/ check.level = "blocked" THEN FALSE
        ELSE \/ t - ack[1].timestamp > WarningRealertMs
             \/ ack[1].percentage
                   - OrDefault(check.model.remainingPercentage, AckDefaultPct)
                 > SignificantDrop

\* Variant of shouldShowAlert: the re-alert fires at exactly ten minutes.
shouldShowAlert_atTenMinutes(check, acks, t) ==
    LET ack == acks[check.model.modelId]
    IN  IF ack = None THEN TRUE
        ELSE IF levelOrder(check.level) > levelOrder(ack[1].level) THEN TRUE
        ELSE IF check.level = "critical" \/ check.level = "blocked" THEN FALSE
        ELSE \/ t - ack[1].timestamp >= WarningRealertMs
             \/ ack[1].percentage
                   - OrDefault(check.model.remainingPercentage, AckDefaultPct)
                 > SignificantDrop

shouldShowAlert(check, acks, t) ==
    LET ack == acks[check.model.modelId]
    IN  IF ack = None THEN TRUE
        ELSE IF levelOrder(check.level) > levelOrder(ack[1].level) THEN TRUE
        ELSE IF check.level = "critical" \/ check.level = "blocked" THEN FALSE
        ELSE LET beenLongEnough == t - ack[1].timestamp > WarningRealertMs
                 droppedSignificantly ==
                     ack[1].percentage
                       - OrDefault(check.model.remainingPercentage, AckDefaultPct)
                     > SignificantDrop
             IN  beenLongEnough \/ droppedSignificantly

\* The acknowledgment both modals store.
newAck(check, t) ==
    [ level |-> check.level,
      timestamp |-> t,
      percentage |-> OrDefault(check.model.remainingPercentage, AckDefaultPct) ]

\* Variant of resetStep: the last-observed percentage is not recorded on a reset.
resetStep_keepsLastOnReset(st, id, currentPct, alsoPromptCredits) ==
    LET reset == IsReset(st.seen[id], currentPct)
        acks1 == IF reset THEN [st.acks EXCEPT ![id] = None] ELSE st.acks
        acks2 == IF reset /\ alsoPromptCredits
                 THEN [acks1 EXCEPT ![PROMPT_CREDITS] = None] ELSE acks1
    IN  [ acks   |-> acks2,
          seen   |-> IF reset THEN st.seen ELSE [st.seen EXCEPT ![id] = Some(currentPct)],
          resets |-> IF reset THEN st.resets \cup {id} ELSE st.resets ]

\* Variant of resetStep: a reset clears every acknowledgment.
resetStep_clearsAll(st, id, currentPct, alsoPromptCredits) ==
    LET reset == IsReset(st.seen[id], currentPct)
    IN  [ acks   |-> IF reset THEN [ other \in Ids |-> None ] ELSE st.acks,
          seen   |-> [st.seen EXCEPT ![id] = Some(currentPct)],
          resets |-> IF reset THEN st.resets \cup {id} ELSE st.resets ]

\* The two loops of updateSnapshot, threading the two maps.
resetStep(st, id, currentPct, alsoPromptCredits) ==
    LET reset == IsReset(st.seen[id], currentPct)
        acks1 == IF reset THEN [st.acks EXCEPT ![id] = None] ELSE st.acks
        acks2 == IF reset /\ alsoPromptCredits
                 THEN [acks1 EXCEPT ![PROMPT_CREDITS] = None] ELSE acks1
    IN  [ acks   |-> acks2,
          seen   |-> [st.seen EXCEPT ![id] = Some(currentPct)],
          resets |-> IF reset THEN st.resets \cup {id} ELSE st.resets ]

RECURSIVE resetModels(_, _, _)
resetModels(models, i, st) ==
    IF i > Len(models) THEN st
    ELSE resetModels(models, i + 1,
            resetStep(st, models[i].modelId, pctOf(models[i]), TRUE))

detectResets(snapshot, acks, seen) ==
    LET st0 == [ acks |-> acks, seen |-> seen, resets |-> {} ]
        st1 == resetModels(snapshot.models, 1, st0)
    IN  IF snapshot.promptCredits /= None
        THEN resetStep(st1, PROMPT_CREDITS,
                       snapshot.promptCredits[1].remainingPercentage, FALSE)
        ELSE st1

\* Variant of clearDismissed: an old acknowledgment of any level is dropped.
clearDismissed_anyLevel(acks, t) ==
    [ id \in Ids |->
        IF acks[id] /= None /\ t - acks[id][1].timestamp > WarningAckMaxAge
        THEN None ELSE acks[id] ]

\* Variant of clearDismissed: the entries that stay are stamped with the time
\* of the housekeeping.
clearDismissed_restamps(acks, t) ==
    [ id \in Ids |->
        IF acks[id] = None THEN None
        ELSE IF acks[id][1].level = "warning"
                  /\ t - acks[id][1].timestamp > WarningAckMaxAge
        THEN None
        ELSE Some([ acks[id][1] EXCEPT !.timestamp = t ]) ]

\* clearDismissedWarnings as a function of the map and the clock.
clearDismissed(acks, t) ==
    [ id \in Ids |->
        IF acks[id] /= None /\ acks[id][1].level = "warning"
              /\ t - acks[id][1].timestamp > WarningAckMaxAge
        THEN None ELSE acks[id] ]

----------------------------------------------------------------------------
(* What an operation reports: its name, the value it returned (allow), what  *)
(* it put on screen (shown), the GuardCheckResult it worked on, the user's  *)
(* choice it resumed with, and the ids for which it detected a reset.       *)

Ret(op, allow, shown, check, choice, resets) ==
    [ op |-> op, allow |-> allow, shown |-> shown, check |-> check,
      choice |-> choice, resets |-> resets ]

Quiet(op) == Ret(op, None, "none", None, "none", {})

\* The ids whose acknowledgment updateSnapshot deletes, given the detected resets.
clearedIds(resets) ==
    resets \cup (IF resets \cap ModelIds /= {} THEN {PROMPT_CREDITS} ELSE {})

\* History: a suspended call for whose id a reset has been detected since it
\* was evaluated.
markStale(suspended, resets) ==
    [ i \in 1..Len(suspended) |->
        IF suspended[i].check.model.modelId \in resets
        THEN [suspended[i] EXCEPT !.stale = TRUE] ELSE suspended[i] ]

RemoveAt(s, i) == SubSeq(s, 1, i - 1) \o SubSeq(s, i + 1, Len(s))

----------------------------------------------------------------------------
(* QuotaGuard: operations *)

StartTime == blockCooldown

\* The objects activate() constructs around the guard, before any discovery,
\* on a platform and with n callers of the guard.
HostWith(platform, n) ==
    /\ strategy = platform
    /\ detections = << >>
    /\ isInitialized = FALSE
    /\ quotaManager = [ port |-> 0, csrfToken |-> "", lastSnapshot |-> None,
                        pollingTimer |-> None ]
    /\ timers = {}
    /\ requests = << >>
    /\ initCalls = << >>
    /\ statusBar = "ready"
    /\ settings = [ enabled |-> TRUE, pinnedModels |-> {} ]
    /\ resultsUsed = 0
    /\ callers = n

InitHost == HostWith("unix", MaxPending)

InitGuard(cfg) ==
    /\ lastSnapshot = None
    /\ config = cfg
    /\ guardState = [ level |-> "normal", modelsAtRisk |-> << >>,
                      lowestQuota |-> InitialLowestQuota, lowestQuotaModel |-> None,
                      guardActive |-> cfg.guardEnabled ]
    /\ acknowledgments = [ id \in Ids |-> None ]
    /\ lastSeenPercentages = [ id \in Ids |-> None ]
    /\ lastBlockShown = 0
    /\ now = StartTime
    /\ pending = << >>
    /\ staleAcks = {}
    /\ severeAcks = [ id \in Ids |-> None ]
    /\ clearedAcks = [ id \in Ids |-> None ]
    /\ ret = Quiet("constructor")

InitWith(cfg) == InitGuard(cfg) /\ InitHost

UpdateConfig(cfg) ==
    /\ config' = cfg
    /\ guardState' = [guardState EXCEPT !.guardActive = cfg.guardEnabled]
    /\ ret' = Quiet("updateConfig")
    /\ UNCHANGED << lastSnapshot, acknowledgments, lastSeenPercentages,
                    lastBlockShown, now, pending, staleAcks, severeAcks, clearedAcks, hostVars >>

UpdateSnapshot(snapshot) ==
    LET st == detectResets(snapshot, acknowledgments, lastSeenPercentages)
        cleared == clearedIds(st.resets)
    IN  /\ acknowledgments' = st.acks
        /\ lastSeenPercentages' = st.seen
        /\ lastSnapshot' = Some(snapshot)
        /\ guardState' = analyzeQuotaState(snapshot, config)
        /\ pending' = markStale(pending, st.resets)
        /\ staleAcks' = staleAcks \ cleared
        /\ severeAcks' = [ id \in Ids |-> IF id \in cleared THEN None ELSE severeAcks[id] ]
        /\ clearedAcks' =
              [ id \in Ids |->
                  IF id \in cleared /\ acknowledgments[id] /= None
                  THEN Some([ level |-> acknowledgments[id][1].level,
                              percentage |-> acknowledgments[id][1].percentage ])
                  ELSE None ]
        /\ ret' = Ret("updateSnapshot", None, "none", None, "none", st.resets)
        /\ UNCHANGED << config, lastBlockShown, now, hostVars >>

ToggleGuard ==
    /\ guardState' = [guardState EXCEPT !.guardActive = ~guardState.guardActive]
    /\ ret' = Ret("toggleGuard", Some(~guardState.guardActive), "none", None, "none", {})
    /\ UNCHANGED << lastSnapshot, config, acknowledgments, lastSeenPercentages,
                    lastBlockShown, now, pending, staleAcks, severeAcks, clearedAcks, hostVars >>

ClearDismissedWarnings ==
    /\ acknowledgments' = clearDismissed(acknowledgments, now)
    /\ staleAcks' = { id \in staleAcks : acknowledgments'[id] /= None }
    /\ UNCHANGED << severeAcks, clearedAcks, hostVars >>
    /\ ret' = Quiet("clearDismissedWarnings")
    /\ UNCHANGED << lastSnapshot, config, guardState, lastSeenPercentages,
                    lastBlockShown, now, pending >>

\* checkAndWarn up to its return or its first `await`.
Returns(allow, shown, check) ==
    /\ ret' = Ret("checkAndWarn", Some(allow), shown, check, "none", {})
    /\ UNCHANGED << lastBlockShown, pending >>

Suspends(kind, check) ==
    /\ Len(pending) < callers
    /\ pending' = Append(pending, [ kind |-> kind, check |-> check, stale |-> FALSE ])
    /\ ret' = Ret("checkAndWarn", None, kind, Some(check), "none", {})

showWarningModal(check) ==
    /\ Suspends("warning", check)
    /\ UNCHANGED lastBlockShown

\* Variant of showBlockModal: no cooldown, every blocking alert opens a prompt.
showBlockModal_noCooldown(check) ==
    /\ lastBlockShown' = now
    /\ pending' = Append(pending, [ kind |-> "block", check |-> check, stale |-> FALSE ])
    /\ ret' = Ret("checkAndWarn", None, "block", Some(check), "none", {})

\* Variant of showBlockModal: the cooldown restarts on every notice.
showBlockModal_restartsCooldown(check) ==
    IF now - lastBlockShown < blockCooldown
    THEN /\ ret' = Ret("checkAndWarn", Some(FALSE), "notice", Some(check), "none", {})
         /\ lastBlockShown' = now
         /\ UNCHANGED pending
    ELSE /\ lastBlockShown' = now
         /\ Suspends("block", check)

showBlockModal(check) ==
    IF now - lastBlockShown < blockCooldown
    THEN Returns(FALSE, "notice", Some(check))
    ELSE /\ lastBlockShown' = now
         /\ Suspends("block", check)

\* Variant of CheckAtRisk: a suppressed blocking check still refuses the action.
CheckAtRisk_refusesWhenSuppressed ==
    LET modelsAtRisk == getModelsRequiringAttention(lastSnapshot, config)
    IN  IF Len(modelsAtRisk) = 0
        THEN Returns(TRUE, "none", None)
        ELSE LET check == checkModel(worstModelOf(modelsAtRisk), config)
             IN  IF ~shouldShowAlert(check, acknowledgments, now)
                 THEN Returns(~check.shouldBlock, "none", Some(check))
                 ELSE IF check.shouldBlock THEN showBlockModal(check)
                 ELSE IF check.shouldWarn THEN showWarningModal(check)
                 ELSE Returns(TRUE, "none", Some(check))

\* checkAndWarn once the guard is known to be active (lines 105-130).
CheckAtRisk ==
    LET modelsAtRisk == getModelsRequiringAttention(lastSnapshot, config)
    IN  IF Len(modelsAtRisk) = 0
        THEN Returns(TRUE, "none", None)
        ELSE LET check == checkModel(worstModelOf(modelsAtRisk), config)
             IN  IF ~shouldShowAlert(check, acknowledgments, now)
                 THEN Returns(TRUE, "none", Some(check))
                 ELSE IF check.shouldBlock THEN showBlockModal(check)
                 ELSE IF check.shouldWarn THEN showWarningModal(check)
                 ELSE Returns(TRUE, "none", Some(check))

\* Variant of CheckAndWarn: guardActive is not consulted.
CheckAndWarn_unguarded ==
    /\ UNCHANGED << lastSnapshot, config, guardState, acknowledgments,
                    lastSeenPercentages, now, staleAcks, severeAcks, hostVars >>
    /\ clearedAcks' = [ id \in Ids |-> None ]
    /\ CheckAtRisk

\* Variant of CheckAndWarn: the call derives the GuardState again from the
\* stored snapshot and the current configuration.
CheckAndWarn_reanalyzes ==
    /\ UNCHANGED << lastSnapshot, config, acknowledgments,
                    lastSeenPercentages, now, staleAcks, severeAcks, hostVars >>
    /\ guardState' = IF lastSnapshot = None THEN guardState
                     ELSE analyzeQuotaState(lastSnapshot[1], config)
    /\ clearedAcks' = [ id \in Ids |-> None ]
    /\ IF ~guardState.guardActive
       THEN Returns(TRUE, "none", None)
       ELSE CheckAtRisk

CheckAndWarn ==
    /\ UNCHANGED << lastSnapshot, config, guardState, acknowledgments,
                    lastSeenPercentages, now, staleAcks, severeAcks, hostVars >>
    /\ clearedAcks' = [ id \in Ids |-> None ]
    /\ IF ~guardState.guardActive
       THEN Returns(TRUE, "none", None)
       ELSE CheckAtRisk

\* The user's answers to a prompt; "dismissed" is the undefined result.
Choices(kind) ==
    IF kind = "warning" THEN {"Continue", "Show Details", "dismissed"}
    ELSE {"Proceed Anyway", "Wait for Reset", "dismissed"}

\* Variant of recordsAck: a blocking prompt records only when the user proceeds.
recordsAck_onProceedOnly(kind, choice) ==
    IF kind = "warning" THEN choice /= "Show Details" ELSE choice = "Proceed Anyway"

\* Variant of recordsAck: every answer to a prompt records.
recordsAck_always(kind, choice) == TRUE

\* Whether the continuation of a prompt stores an acknowledgment: always after
\* the blocking prompt, unless 'Show Details' after the warning prompt.
recordsAck(kind, choice) == ~(kind = "warning" /\ choice = "Show Details")

\* What the continuation of a prompt returns.
allows(kind, choice) ==
    IF kind = "warning" THEN choice /= "Show Details" ELSE choice = "Proceed Anyway"

\* checkAndWarn from its `await` to its return, for the i-th suspended call.
UserRespond(i, choice) ==
    /\ i \in 1..Len(pending)
    /\ choice \in Choices(pending[i].kind)
    /\ LET call == pending[i]
           id == call.check.model.modelId
           recorded == recordsAck(call.kind, choice)
           allow == allows(call.kind, choice)
       IN  /\ acknowledgments' =
                 IF recorded
                 THEN [acknowledgments EXCEPT ![id] = Some(newAck(call.check, now))]
                 ELSE acknowledgments
           /\ staleAcks' = IF ~recorded THEN staleAcks
                           ELSE IF call.stale THEN staleAcks \cup {id}
                           ELSE staleAcks \ {id}
           /\ severeAcks' =
                 IF recorded /\ ~call.stale
                       /\ call.check.level \in {"critical", "blocked"}
                 THEN [severeAcks EXCEPT ![id] = Some(call.check.level)]
                 ELSE severeAcks
           /\ ret' = Ret("respond", Some(allow), "none", Some(call.check), choice, {})
    /\ pending' = RemoveAt(pending, i)
    /\ UNCHANGED << lastSnapshot, config, guardState, lastSeenPercentages,
                    lastBlockShown, now, clearedAcks, hostVars >>

\* Time passes, up to a horizon.
Tick(d, horizon) ==
    /\ d > 0
    /\ now + d <= horizon
    /\ now' = now + d
    /\ ret' = Quiet("tick")
    /\ UNCHANGED << lastSnapshot, config, guardState, acknowledgments,
                    lastSeenPercentages, lastBlockShown, pending, staleAcks, severeAcks, clearedAcks, hostVars >>

----------------------------------------------------------------------------
(* Platform strategies (core/platform_strategies.ts).  The output of the    *)
(* process-list command is a sequence of process entries, each holding what *)
(* the parsers' expressions can find in it: the pid (0 when it is not a     *)
(* number), the number of whitespace-separated columns of the line, and the *)
(* flags of the command line.  The output of the port-list command is a     *)
(* sequence of lines, each with the port and the pid it names.              *)

ProcessEntry(pid, columns, flags) == [ pid |-> pid, columns |-> columns, flags |-> flags ]

Flags(extPort, grpcPort, csrfFlag, urlSegment, uuid) ==
    [ extension_server_port |-> extPort, grpc_server_port |-> grpcPort,
      csrf_token |-> csrfFlag, api_server_url |-> urlSegment, uuid |-> uuid ]

PortLine(port, pid) == [ port |-> port, pid |-> pid ]

PsColumns == 11

FirstOf(a, b) == IF a /= None THEN a ELSE b

\* WindowsStrategy.extractFromCommandLine
extractFromCommandLine(flags, pid) ==
    LET portMatch == FirstOf(flags.extension_server_port, flags.grpc_server_port)
        tokenMatch == FirstOf(flags.csrf_token, FirstOf(flags.api_server_url, flags.uuid))
    IN  IF portMatch = None THEN None
        ELSE IF tokenMatch = None \/ tokenMatch = Some("") THEN None
        ELSE Some([ pid |-> pid, extensionPort |-> portMatch[1],
                    csrfToken |-> tokenMatch[1] ])

\* UnixStrategy.parseProcessLine
parseProcessLine(entry) ==
    LET portMatch == FirstOf(entry.flags.extension_server_port,
                             entry.flags.grpc_server_port)
        tokenMatch == FirstOf(entry.flags.csrf_token, entry.flags.uuid)
    IN  IF entry.columns < PsColumns THEN None
        ELSE IF portMatch = None THEN None
        ELSE IF tokenMatch = None \/ tokenMatch = Some("") THEN None
        ELSE Some([ pid |-> entry.pid, extensionPort |-> portMatch[1],
                    csrfToken |-> tokenMatch[1] ])

RECURSIVE firstParsed(_, _)
firstParsed(stdout, i) ==
    IF i > Len(stdout) THEN None
    ELSE IF parseProcessLine(stdout[i]) /= None THEN parseProcessLine(stdout[i])
    ELSE firstParsed(stdout, i + 1)

\* PlatformStrategy.parseProcessInfo: Windows keeps the last CommandLine= and
\* ProcessId= values of the output, Unix returns the first line that parses.
parseProcessInfo(platform, stdout) ==
    IF platform = "windows"
    THEN IF Len(stdout) = 0 THEN None
         ELSE LET last == stdout[Len(stdout)]
              IN  IF last.pid = 0 THEN None
                  ELSE extractFromCommandLine(last.flags, last.pid)
    ELSE firstParsed(stdout, 1)

\* `[...new Set(ports)]`: the first occurrence of every port, in order.
RECURSIVE dedupe(_, _)
dedupe(ports, i) ==
    IF i > Len(ports) THEN << >>
    ELSE IF \E j \in 1..(i - 1) : ports[j] = ports[i] THEN dedupe(ports, i + 1)
    ELSE << ports[i] >> \o dedupe(ports, i + 1)

RECURSIVE portsOf(_, _, _, _)
portsOf(platform, lines, pid, i) ==
    IF i > Len(lines) THEN << >>
    ELSE IF platform = "windows" /\ lines[i].pid /= pid
         THEN portsOf(platform, lines, pid, i + 1)
         ELSE << lines[i].port >> \o portsOf(platform, lines, pid, i + 1)

\* Variant of parseListeningPorts: a port named twice is listed twice.
parseListeningPorts_keepsDuplicates(platform, lines, pid) == portsOf(platform, lines, pid, 1)

\* PlatformStrategy.parseListeningPorts: Windows keeps the lines of the pid,
\* Unix every line the command let through.
parseListeningPorts(platform, lines, pid) == dedupe(portsOf(platform, lines, pid, 1), 1)

----------------------------------------------------------------------------
(* ProcessFinder (core/process_finder.ts).  A detectProcessInfo call is a   *)
(* record: its loop variable, the `await` it is suspended at (pc), the      *)
(* values of the attempt under way, its caller, and a log of what it has    *)
(* done: commands issued, delays started, attempts failed, and the process  *)
(* list and the probes of the attempt under way with their results, and     *)
(* how its latest probe ended.                                              *)

DefaultMaxRetries == 3
MaxPort == 65535
HttpOk == 200

\* The outcome of a health probe: how the request ended.
ProbeEnd(statusCode, json) == [ event |-> "end", statusCode |-> statusCode, json |-> json ]
ProbeFails(event) == [ event |-> event, statusCode |-> 0, json |-> FALSE ]

\* Variant of testPort: any response with a JSON body counts.
testPort_anyStatus(response) ==
    response.event = "end" /\ response.json

\* What testPort resolves to.
testPort(response) ==
    response.event = "end" /\ response.statusCode = HttpOk /\ response.json

\* The execAsync call of an attempt is made: the call awaits the process list.
startAttempt(call) == [ call EXCEPT !.pc = "ps", !.psCmds = @ + 1, !.info = None,
                                    !.ports = << >>, !.probed = << >>,
                                    !.portCmds = 0, !.stdout = << >>,
                                    !.response = None ]

\* Variant of failAttempt: the loop test is `attempt <= maxRetries`.
failAttempt_extraAttempt(call) ==
    IF call.attempt < call.maxRetries
    THEN [ call EXCEPT !.pc = "delay", !.failed = @ + 1, !.delays = @ + 1 ]
    ELSE [ call EXCEPT !.pc = "returned", !.failed = @ + 1, !.attempt = @ + 1,
                       !.result = None ]

\* The attempt is over without a result: the delay before the next attempt, or
\* the end of the loop.
failAttempt(call) ==
    IF call.attempt < call.maxRetries - 1
    THEN [ call EXCEPT !.pc = "delay", !.failed = @ + 1, !.delays = @ + 1 ]
    ELSE [ call EXCEPT !.pc = "returned", !.failed = @ + 1, !.attempt = @ + 1,
                       !.result = None ]

\* detectProcessInfo up to its first `await`.
startCall(maxRetries, caller) ==
    LET call == [ maxRetries |-> maxRetries, attempt |-> 0, pc |-> "returned",
                  info |-> None, ports |-> << >>, probed |-> << >>,
                  result |-> None, caller |-> caller,
                  psCmds |-> 0, portCmds |-> 0, delays |-> 0, failed |-> 0,
                  stdout |-> << >>, response |-> None ]
    IN  IF 0 < maxRetries THEN startAttempt(call) ELSE call

\* The process-list command has ended: rejected, or with an output.
afterPs(call, platform, outcome) ==
    IF outcome.rejected THEN failAttempt(call)
    ELSE LET info == parseProcessInfo(platform, outcome.stdout)
             read == [ call EXCEPT !.stdout = outcome.stdout ]
         IN  IF info = None THEN failAttempt(read)
             ELSE [ read EXCEPT !.pc = "ports", !.info = info, !.portCmds = @ + 1 ]

\* findWorkingPort calls testPort for the next port of the list.
probeNext(call) ==
    [ call EXCEPT !.pc = "probe" ]

\* The port-list command has ended (getListeningPorts returns [] when it is
\* rejected).
afterPorts(call, platform, outcome) ==
    LET ports == IF outcome.rejected THEN << >>
                 ELSE parseListeningPorts(platform, outcome.stdout, call.info[1].pid)
    IN  IF Len(ports) > 0
        THEN probeNext([ call EXCEPT !.ports = ports ])
        ELSE failAttempt([ call EXCEPT !.ports = ports ])

\* Variant of probedPort: the list is walked from its end.
probedPort_fromLast(call) == call.ports[Len(call.ports) - Len(call.probed)]

\* The port findWorkingPort is probing.
probedPort(call) == call.ports[Len(call.probed) + 1]

\* Variant of afterProbe: the first listed port is returned, whichever answered.
afterProbe_firstListed(call, response) ==
    LET port == call.ports[Len(call.probed) + 1]
        working == response.event /= "throws" /\ testPort(response)
        logged == [ call EXCEPT !.probed = Append(@, [ port |-> port, working |-> working ]),
                               !.response = Some(response) ]
    IN  IF response.event = "throws" THEN failAttempt(logged)
        ELSE IF working
        THEN [ logged EXCEPT !.pc = "returned",
                             !.result = Some([ extensionPort |-> call.info[1].extensionPort,
                                               connectPort |-> call.ports[1],
                                               csrfToken |-> call.info[1].csrfToken ]) ]
        ELSE IF Len(logged.probed) < Len(call.ports) THEN probeNext(logged)
        ELSE failAttempt(logged)

\* Variant of afterProbe: an exception of the probe is not caught.
afterProbe_rethrows(call, response) ==
    LET port == call.ports[Len(call.probed) + 1]
        working == response.event /= "throws" /\ testPort(response)
        logged == [ call EXCEPT !.probed = Append(@, [ port |-> port, working |-> working ]),
                               !.response = Some(response) ]
    IN  IF response.event = "throws" THEN [ logged EXCEPT !.pc = "rejected" ]
        ELSE IF working
        THEN [ logged EXCEPT !.pc = "returned",
                             !.result = Some([ extensionPort |-> call.info[1].extensionPort,
                                               connectPort |-> port,
                                               csrfToken |-> call.info[1].csrfToken ]) ]
        ELSE IF Len(logged.probed) < Len(call.ports) THEN probeNext(logged)
        ELSE failAttempt(logged)

\* The probe has ended: testPort resolved, or https.request threw.
afterProbe(call, response) ==
    LET port == probedPort(call)
        working == response.event /= "throws" /\ testPort(response)
        logged == [ call EXCEPT !.probed = Append(@, [ port |-> port, working |-> working ]),
                               !.response = Some(response) ]
    IN  IF response.event = "throws" THEN failAttempt(logged)
        ELSE IF working
        THEN IF port /= 0
             THEN [ logged EXCEPT !.pc = "returned",
                                  !.result = Some([ extensionPort |-> call.info[1].extensionPort,
                                                    connectPort |-> port,
                                                    csrfToken |-> call.info[1].csrfToken ]) ]
             ELSE failAttempt(logged)
        ELSE IF Len(logged.probed) < Len(call.ports) THEN probeNext(logged)
        ELSE failAttempt(logged)

\* The 500 ms delay has passed: the next iteration of the loop.
afterDelay(call) == startAttempt([ call EXCEPT !.attempt = @ + 1 ])

----------------------------------------------------------------------------
(* QuotaManager (core/config_manager.ts) and the extension's entry points.  *)
(* Timers are the intervals setInterval has created and clearInterval has   *)
(* not cleared; requests are the status requests in flight, each with the   *)
(* port and token it was built with.                                        *)

guardVars == << lastSnapshot, config, guardState, acknowledgments, lastSeenPercentages,
                lastBlockShown, now, pending, staleAcks, severeAcks, clearedAcks >>

MaxRequests == 2
MaxInitCalls == 2

\* What a host operation did: the value it returned and the QuotaManager
\* callbacks it invoked.
HostRet(op, returned, called) == [ op |-> op, returned |-> returned, called |-> called ]

\* The QuotaManager with the timers and requests it owns.
Manager == [ qm |-> quotaManager, timers |-> timers, requests |-> requests ]

SetManager(m) ==
    /\ quotaManager' = m.qm
    /\ timers' = m.timers
    /\ requests' = m.requests

\* QuotaManager.init
init(m, port, csrfToken) == [ m EXCEPT !.qm.port = port, !.qm.csrfToken = csrfToken ]

\* QuotaManager.stopPolling
stopPolling(m) ==
    IF m.qm.pollingTimer /= None
    THEN [ m EXCEPT !.timers = @ \ { m.qm.pollingTimer[1] }, !.qm.pollingTimer = None ]
    ELSE m

\* QuotaManager.fetchQuota up to its `await`: the request is sent.
fetchQuota(m) ==
    [ m EXCEPT !.requests = Append(@, [ port |-> m.qm.port, csrfToken |-> m.qm.csrfToken ]) ]

\* setInterval: a timer that is not one of the live ones.
newTimer(live) == CHOOSE t \in 1..(Cardinality(live) + 1) : t \notin live

\* QuotaManager.startPolling
startPolling(m) ==
    LET fetching == fetchQuota(stopPolling(m))
        timer == newTimer(fetching.timers)
    IN  [ fetching EXCEPT !.timers = @ \cup { timer }, !.qm.pollingTimer = Some(timer) ]

\* initializeExtension from `await processFinder.detectProcessInfo()` on.
Initialized(call) ==
    LET info == call.result[1]
        ready == init(Manager, info.connectPort, info.csrfToken)
        polling == IF call.caller[1].enabled THEN startPolling(ready) ELSE ready
    IN  /\ Len(polling.requests) <= MaxRequests
        /\ SetManager(polling)
        /\ isInitialized' = TRUE
        /\ resultsUsed' = resultsUsed + 1
        /\ UNCHANGED << initCalls, statusBar >>

NotFound ==
    /\ statusBar' = "disconnected"
    /\ initCalls' = Append(initCalls, [ pc |-> "retry" ])
    /\ UNCHANGED << quotaManager, timers, requests, isInitialized, resultsUsed >>

\* A detectProcessInfo call moves to its next `await` or returns to its caller.
Resume(i, call) ==
    /\ ret' = HostRet("detectProcessInfo",
                      IF call.pc = "returned" THEN Some(call.result) ELSE None, {})
    /\ IF call.pc = "returned" /\ call.caller /= None
       THEN /\ detections' = RemoveAt(detections, i)
            /\ IF call.result /= None THEN Initialized(call) ELSE NotFound
       ELSE /\ detections' = [ detections EXCEPT ![i] = call ]
            /\ UNCHANGED << quotaManager, timers, requests, isInitialized,
                            resultsUsed, initCalls, statusBar >>
    /\ UNCHANGED << guardVars, strategy, settings, callers >>

\* processFinder.detectProcessInfo(maxRetries) called on its own.
DetectProcessInfo(maxRetries) ==
    /\ \A i \in DOMAIN detections : detections[i].pc = "returned"
    /\ detections' = << startCall(maxRetries, None) >>
    /\ ret' = HostRet("detectProcessInfo",
                      IF detections'[1].pc = "returned" THEN Some(None) ELSE None, {})
    /\ UNCHANGED << guardVars, strategy, isInitialized, quotaManager, timers, requests,
                    initCalls, statusBar, settings, resultsUsed, callers >>

PsCompletes(i, outcome) ==
    /\ i \in DOMAIN detections
    /\ detections[i].pc = "ps"
    /\ Resume(i, afterPs(detections[i], strategy, outcome))

PortsCompletes(i, outcome) ==
    /\ i \in DOMAIN detections
    /\ detections[i].pc = "ports"
    /\ Resume(i, afterPorts(detections[i], strategy, outcome))

\* https.request throws for a port outside 0..65535, and only for such a port.
ProbeCompletes(i, response) ==
    /\ i \in DOMAIN detections
    /\ detections[i].pc = "probe"
    /\ (response.event = "throws") => (probedPort(detections[i]) > MaxPort)
    /\ Resume(i, afterProbe(detections[i], response))

DelayElapses(i) ==
    /\ i \in DOMAIN detections
    /\ detections[i].pc = "delay"
    /\ Resume(i, afterDelay(detections[i]))

----------------------------------------------------------------------------
(* Status fetches.  A response to the status request is a network error, a  *)
(* timeout, or a body; a body is non-JSON (absent) or the parsed object.    *)
(* Fractions are in units of 1/10000, percentages in tenths of a point.     *)

RawModel(label, model, quotaInfo) ==
    [ label |-> label, modelOrAlias |-> model, quotaInfo |-> quotaInfo ]

QuotaInfo(remainingFraction) == [ remainingFraction |-> remainingFraction ]

UserStatus(planStatus, clientModelConfigs) ==
    [ planStatus |-> planStatus, clientModelConfigs |-> clientModelConfigs ]

Body(userStatus) == [ kind |-> "body", body |-> Some([ userStatus |-> userStatus ]) ]
NonJson == [ kind |-> "body", body |-> None ]
NoResponse(kind) == [ kind |-> kind, body |-> None ]

\* `remainingFraction * 100`
toPercentage(fraction) == (fraction * 100) \div 1000

\* `(available / monthly) * 100`
creditsPercentage(available, monthly) == (available * 1000) \div monthly

RECURSIVE parseModels(_, _)
parseModels(rawModels, i) ==
    IF i > Len(rawModels) THEN << >>
    ELSE IF rawModels[i].quotaInfo = None THEN parseModels(rawModels, i + 1)
    ELSE LET m == rawModels[i]
             remainingFraction == m.quotaInfo[1].remainingFraction
         IN  << [ modelId |-> OrDefault(m.modelOrAlias, "unknown"),
                  remainingPercentage |->
                      IF remainingFraction /= None
                      THEN Some(toPercentage(remainingFraction[1])) ELSE None,
                  label |-> m.label ] >> \o parseModels(rawModels, i + 1)

\* QuotaManager.parseResponse; no result when it throws.
parseResponse(data) ==
    IF data.userStatus = None THEN None
    ELSE LET userStatus == data.userStatus[1]
             plan == userStatus.planStatus
         IN  Some([ models |-> parseModels(userStatus.clientModelConfigs, 1),
                    promptCredits |->
                        IF plan /= None /\ plan[1].available /= None /\ plan[1].monthly > 0
                        THEN Some([ remainingPercentage |->
                                      creditsPercentage(plan[1].available[1], plan[1].monthly) ])
                        ELSE None ])

\* QuotaManager.request and parseResponse: the snapshot of a response, if any.
snapshotOf(response) ==
    IF response.kind = "body" /\ response.body /= None
    THEN parseResponse(response.body[1]) ELSE None

\* StatusBarManager.drawProgressBar: Math.round((percentage / 100) * total).
BarTotal == 10
filledOf(pct) == (pct + 50) \div 100

\* String.prototype.repeat throws for a negative count.
drawProgressBarThrows(pct) == filledOf(pct) < 0 \/ BarTotal - filledOf(pct) < 0

labelOf(model) ==
    IF model.modelId = PROMPT_CREDITS THEN Some("Global Prompt Credits") ELSE model.label

\* StatusBarManager.update: the models shown in the item's text.
modelsToShow(snapshot, state, pinnedModels) ==
    IF pinnedModels /= {}
    THEN SelectSeq(snapshot.models, LAMBDA m : m.modelId \in pinnedModels)
    ELSE IF state.lowestQuotaModel /= None THEN << state.lowestQuotaModel[1] >> ELSE << >>

\* StatusBarManager.update throws: getAbbreviation on an absent label, or
\* drawProgressBar in buildTooltip.
updateThrows(snapshot, state, pinnedModels) ==
    \/ \E k \in DOMAIN modelsToShow(snapshot, state, pinnedModels) :
           labelOf(modelsToShow(snapshot, state, pinnedModels)[k]) = None
    \/ \E k \in DOMAIN snapshot.models :
           drawProgressBarThrows(pctOf_defaultZero(snapshot.models[k]))

\* The quotaManager.onUpdate callback of activate(): guard.updateSnapshot,
\* statusBar.update, guard.clearDismissedWarnings.
OnUpdate(snapshot) ==
    LET st == detectResets(snapshot, acknowledgments, lastSeenPercentages)
        cleared == clearedIds(st.resets)
        state == analyzeQuotaState(snapshot, config)
        rendered == ~updateThrows(snapshot, state, settings.pinnedModels)
        acks == IF rendered THEN clearDismissed(st.acks, now) ELSE st.acks
    IN  /\ acknowledgments' = acks
        /\ lastSeenPercentages' = st.seen
        /\ lastSnapshot' = Some(snapshot)
        /\ guardState' = state
        /\ pending' = markStale(pending, st.resets)
        /\ staleAcks' = { id \in staleAcks \ cleared : acks[id] /= None }
        /\ severeAcks' = [ id \in Ids |-> IF id \in cleared THEN None ELSE severeAcks[id] ]
        /\ clearedAcks' =
              [ id \in Ids |->
                  IF id \in cleared /\ acknowledgments[id] /= None
                  THEN Some([ level |-> acknowledgments[id][1].level,
                              percentage |-> acknowledgments[id][1].percentage ])
                  ELSE None ]
        /\ statusBar' = IF rendered THEN "quota" ELSE "error"
        /\ ret' = HostRet("fetchQuota", IF rendered THEN Some(snapshot) ELSE None,
                          IF rendered THEN { "update" } ELSE { "update", "error" })
        /\ UNCHANGED << config, lastBlockShown, now >>

\* The quotaManager.onError callback of activate().
OnError ==
    /\ statusBar' = "error"
    /\ ret' = HostRet("fetchQuota", None, { "error" })
    /\ UNCHANGED guardVars

\* Variant of FetchCompletes: the response is handled only once no prompt is open.
FetchCompletes_afterPrompt(i, response) ==
    /\ pending = << >>
    /\ i \in DOMAIN requests
    /\ requests[i].port = 0 => response.kind = "error"
    /\ requests' = RemoveAt(requests, i)
    /\ IF snapshotOf(response) /= None
       THEN /\ quotaManager' = [ quotaManager EXCEPT !.lastSnapshot = snapshotOf(response) ]
            /\ OnUpdate(snapshotOf(response)[1])
       ELSE /\ OnError
            /\ UNCHANGED quotaManager
    /\ UNCHANGED << strategy, detections, isInitialized, timers, initCalls, settings,
                    resultsUsed, callers >>

\* fetchQuota from its `await` on: the request settles.  A request to port 0
\* (no endpoint discovered) cannot be answered.
FetchCompletes(i, response) ==
    /\ i \in DOMAIN requests
    /\ requests[i].port = 0 => response.kind = "error"
    /\ requests' = RemoveAt(requests, i)
    /\ IF snapshotOf(response) /= None
       THEN /\ quotaManager' = [ quotaManager EXCEPT !.lastSnapshot = snapshotOf(response) ]
            /\ OnUpdate(snapshotOf(response)[1])
       ELSE /\ OnError
            /\ UNCHANGED quotaManager
    /\ UNCHANGED << strategy, detections, isInitialized, timers, initCalls, settings,
                    resultsUsed, callers >>

\* The interval of startPolling fires.
PollTimerFires(t) ==
    /\ t \in timers
    /\ Len(requests) < MaxRequests
    /\ SetManager(fetchQuota(Manager))
    /\ ret' = HostRet("fetchQuota", None, {})
    /\ UNCHANGED << guardVars, strategy, detections, isInitialized, initCalls, statusBar,
                    settings, resultsUsed, callers >>

\* The gravity.refresh command.
Refresh ==
    /\ Len(requests) < MaxRequests
    /\ SetManager(fetchQuota(Manager))
    /\ ret' = HostRet("fetchQuota", None, {})
    /\ UNCHANGED << guardVars, strategy, detections, isInitialized, initCalls, statusBar,
                    settings, resultsUsed, callers >>

----------------------------------------------------------------------------
(* Spec: one detectProcessInfo call at a time, on either platform, against  *)
(* every outcome of its commands and probes.                                *)

MaxRetries == 3

BadPort == MaxPort + 1

FullFlags == Flags(Some(9001), Some(9002), Some("flag"), Some("segment"), Some("uuid"))
GrpcFlags == Flags(None, Some(9002), None, Some("segment"), Some("uuid"))
NoPortFlags == Flags(None, None, Some("flag"), None, None)
NoTokenFlags == Flags(Some(9001), None, None, None, None)

PsOutputs ==
    { << >>,
      << ProcessEntry(7, PsColumns, FullFlags) >>,
      << ProcessEntry(7, PsColumns + 1, GrpcFlags) >>,
      << ProcessEntry(7, PsColumns - 1, FullFlags) >>,
      << ProcessEntry(7, PsColumns, NoPortFlags),
         ProcessEntry(8, PsColumns, FullFlags) >>,
      << ProcessEntry(7, PsColumns, GrpcFlags),
         ProcessEntry(8, PsColumns, NoTokenFlags) >> }

PortOutputs ==
    { << >>,
      << PortLine(1, 7) >>,
      << PortLine(2, 7), PortLine(1, 7), PortLine(2, 7) >>,
      << PortLine(2, 8), PortLine(1, 7), PortLine(3, 7) >>,
      << PortLine(BadPort, 7), PortLine(1, 7) >> }

Rejected == [ rejected |-> TRUE, stdout |-> << >> ]
Stdout(out) == [ rejected |-> FALSE, stdout |-> out ]

PsOutcomes == { Rejected } \cup { Stdout(out) : out \in PsOutputs }
PortOutcomes == { Rejected } \cup { Stdout(out) : out \in PortOutputs }

ProbeResponses ==
    { ProbeEnd(HttpOk, TRUE), ProbeEnd(HttpOk, FALSE), ProbeEnd(500, TRUE),
      ProbeFails("error"), ProbeFails("timeout"), ProbeFails("throws") }

Platforms == { "windows", "unix" }

DiscoverConfig == [ warningThreshold |-> 100, blockThreshold |-> 20, guardEnabled |-> TRUE ]

InitDiscover ==
    /\ InitGuard(DiscoverConfig)
    /\ \E platform \in Platforms : HostWith(platform, MaxPending)

NextDiscover ==
    \/ \E maxRetries \in 0..MaxRetries : DetectProcessInfo(maxRetries)
    \/ \E outcome \in PsOutcomes : PsCompletes(1, outcome)
    \/ \E outcome \in PortOutcomes : PortsCompletes(1, outcome)
    \/ \E response \in ProbeResponses : ProbeCompletes(1, response)
    \/ DelayElapses(1)

SpecDiscover == InitDiscover /\ [][NextDiscover]_vars

\* The same, with every command, probe and delay completing.
SpecDiscoverLive ==
    /\ SpecDiscover
    /\ WF_vars(\E outcome \in PsOutcomes : PsCompletes(1, outcome))
    /\ WF_vars(\E outcome \in PortOutcomes : PortsCompletes(1, outcome))
    /\ WF_vars(\E response \in ProbeResponses : ProbeCompletes(1, response))
    /\ WF_vars(DelayElapses(1))

----------------------------------------------------------------------------
(* Spec: the initialised extension polling the status endpoint, with        *)
(* checks and the user's answers in between.                                *)

PollConfig == [ warningThreshold |-> 100, blockThreshold |-> 20, guardEnabled |-> TRUE ]

Labelled(fraction) == RawModel(Some("A"), Some("m1"), Some(QuotaInfo(fraction)))
Unlabelled(fraction) == RawModel(None, Some("m1"), Some(QuotaInfo(fraction)))
Unmetered == RawModel(Some("B"), Some("m2"), None)

PollResponses ==
    { NoResponse("error"), NoResponse("timeout"), NonJson, Body(None),
      Body(Some(UserStatus(None, << Labelled(Some(150)) >>))),
      Body(Some(UserStatus(None, << Labelled(Some(5000)) >>))),
      Body(Some(UserStatus(None, << Labelled(None) >>))),
      Body(Some(UserStatus(None, << Unlabelled(Some(150)) >>))),
      Body(Some(UserStatus(None, << Labelled(Some(12000)) >>))),
      Body(Some(UserStatus(Some([ monthly |-> 100, available |-> Some(5) ]),
                           << Unmetered >>))) }

\* The state initializeExtension leaves once discovery has succeeded.
InitPoll ==
    /\ InitGuard(PollConfig)
    /\ strategy = "unix"
    /\ detections = << >>
    /\ isInitialized = TRUE
    /\ LET constructed == [ qm |-> [ port |-> 0, csrfToken |-> "", lastSnapshot |-> None,
                                     pollingTimer |-> None ],
                            timers |-> {}, requests |-> << >> ]
           polling == startPolling(init(constructed, 1, "flag"))
       IN  /\ quotaManager = polling.qm
           /\ timers = polling.timers
           /\ requests = polling.requests
    /\ initCalls = << >>
    /\ statusBar = "loading"
    /\ settings = [ enabled |-> TRUE, pinnedModels |-> {} ]
    /\ resultsUsed = 1
    /\ callers = MaxPending

NextPoll ==
    \/ \E t \in timers : PollTimerFires(t)
    \/ Refresh
    \/ \E i \in 1..MaxRequests, response \in PollResponses : FetchCompletes(i, response)
    \/ CheckAndWarn
    \/ \E i \in 1..MaxPending, choice \in Choices("warning") \cup Choices("block") :
          UserRespond(i, choice)

SpecPoll == InitPoll /\ [][NextPoll]_vars

----------------------------------------------------------------------------
(* Spec: the same, with the event loop delivering every response: a request *)
(* in flight settles by its response, an error or its timeout.  Nothing     *)
(* makes the user answer a prompt.                                          *)

SpecPollLive ==
    /\ SpecPoll
    /\ WF_vars(\E i \in 1..MaxRequests, response \in PollResponses :
                   FetchCompletes(i, response))

----------------------------------------------------------------------------
(* Spec: the extension from the end of activate(): discoveries started by   *)
(* initializeExtension, the reconnect command, the answers to the "process  *)
(* not found" message, and the status fetches polling starts.               *)

\* initializeExtension up to `await processFinder.detectProcessInfo()`.
InitializeExtension ==
    IF isInitialized'
    THEN UNCHANGED detections /\ statusBar' = statusBar
    ELSE /\ statusBar' = "loading"
         /\ detections' = Append(detections,
                                 startCall(DefaultMaxRetries,
                                           Some([ enabled |-> settings.enabled ])))

\* The gravity.reconnect command.
Reconnect ==
    /\ Len(detections) + Len(initCalls) < MaxInitCalls
    /\ isInitialized' = FALSE
    /\ SetManager(stopPolling(Manager))
    /\ InitializeExtension
    /\ resultsUsed' = 0
    /\ ret' = HostRet("reconnect", None, {})
    /\ UNCHANGED << guardVars, strategy, initCalls, settings, callers >>

RetryChoices == { "Retry", "Show Logs", "dismissed" }

\* The user answers the "Could not find Antigravity process" message of the
\* i-th initializeExtension call waiting on it.
RetryAnswered(i, action) ==
    /\ i \in DOMAIN initCalls
    /\ initCalls' = RemoveAt(initCalls, i)
    /\ UNCHANGED isInitialized
    /\ IF action = "Retry"
       THEN InitializeExtension
       ELSE UNCHANGED << detections, statusBar >>
    /\ ret' = HostRet("initializeExtension", None, {})
    /\ UNCHANGED << guardVars, strategy, quotaManager, timers, requests, settings,
                    resultsUsed, callers >>

\* The configManager.onConfigChange callback of activate(), run with the
\* settings as they are after the change: guard.updateConfig, polling started
\* or stopped, statusBar.update when a snapshot is held.
ConfigChange(newSettings) ==
    LET polling == IF newSettings.enabled /\ isInitialized THEN startPolling(Manager)
                   ELSE IF ~newSettings.enabled THEN stopPolling(Manager)
                   ELSE Manager
        state == [ guardState EXCEPT !.guardActive = config.guardEnabled ]
        held == quotaManager.lastSnapshot
    IN  /\ Len(polling.requests) <= MaxRequests
        /\ settings' = newSettings
        /\ guardState' = state
        /\ SetManager(polling)
        /\ statusBar' = IF held /= None
                           /\ ~updateThrows(held[1], state, newSettings.pinnedModels)
                        THEN "quota" ELSE statusBar
        /\ ret' = HostRet("onConfigChange", None, {})
        /\ UNCHANGED << lastSnapshot, config, acknowledgments, lastSeenPercentages,
                        lastBlockShown, now, pending, staleAcks, severeAcks,
                        clearedAcks, strategy, detections, isInitialized,
                        initCalls, resultsUsed, callers >>

ExtPsOutcomes == { Rejected, Stdout(<< ProcessEntry(7, PsColumns, FullFlags) >>) }
ExtPortOutcomes == { Stdout(<< PortLine(1, 7) >>) }
ExtProbeResponses == { ProbeEnd(HttpOk, TRUE), ProbeFails("error") }
ExtResponses == { NoResponse("error"),
                  Body(Some(UserStatus(None, << Labelled(Some(5000)) >>))) }

\* activate() has returned: the first initializeExtension awaits its discovery.
InitExt ==
    /\ InitGuard(PollConfig)
    /\ strategy = "unix"
    /\ detections = << startCall(DefaultMaxRetries, Some([ enabled |-> TRUE ])) >>
    /\ isInitialized = FALSE
    /\ quotaManager = [ port |-> 0, csrfToken |-> "", lastSnapshot |-> None,
                        pollingTimer |-> None ]
    /\ timers = {}
    /\ requests = << >>
    /\ initCalls = << >>
    /\ statusBar = "loading"
    /\ settings = [ enabled |-> TRUE, pinnedModels |-> {} ]
    /\ resultsUsed = 0
    /\ callers = MaxPending

NextExt ==
    \/ Reconnect
    \/ \E i \in 1..MaxInitCalls, outcome \in ExtPsOutcomes : PsCompletes(i, outcome)
    \/ \E i \in 1..MaxInitCalls, outcome \in ExtPortOutcomes : PortsCompletes(i, outcome)
    \/ \E i \in 1..MaxInitCalls, response \in ExtProbeResponses : ProbeCompletes(i, response)
    \/ \E i \in 1..MaxInitCalls : DelayElapses(i)
    \/ \E i \in 1..MaxInitCalls, action \in RetryChoices : RetryAnswered(i, action)
    \/ \E t \in timers : PollTimerFires(t)
    \/ \E i \in 1..MaxRequests, response \in ExtResponses : FetchCompletes(i, response)
    \/ \E enabled \in BOOLEAN : ConfigChange([ settings EXCEPT !.enabled = enabled ])

SpecExt == InitExt /\ [][NextExt]_vars

----------------------------------------------------------------------------
(* Spec: the guard driven by snapshots, configuration changes, checks and   *)
(* the user's answers, over a small universe of inputs: model m1 at 0%,     *)
(* 1.9% or 2.0% listed before model m2 at 1.9%, or no model at all; the     *)
(* prompt-credits pool absent or at 0%, 1.9% or 2.0%; thresholds 2.0% and   *)
(* 1.9%, so that both percentages sit on an inclusive edge.                 *)

Thresholds == { [warningThreshold |-> 20, blockThreshold |-> 19] }

Configs == { [ warningThreshold |-> th.warningThreshold,
               blockThreshold |-> th.blockThreshold,
               guardEnabled |-> g ] : th \in Thresholds, g \in BOOLEAN }

ModelLists ==
    {<< >>}
    \cup { << ModelQuotaInfo("m1", Some(p)), ModelQuotaInfo("m2", Some(19)) >> :
              p \in {0, 19, 20} }

PromptCredits == {None} \cup { Some([remainingPercentage |-> p]) : p \in {0, 19, 20} }

Snapshots == { [ models |-> ms, promptCredits |-> pc ] :
                  ms \in ModelLists, pc \in PromptCredits }

Init == \E cfg \in Configs : InitWith(cfg)

Next ==
    \/ \E snapshot \in Snapshots : UpdateSnapshot(snapshot)
    \/ \E cfg \in Configs : UpdateConfig(cfg)
    \/ CheckAndWarn
    \/ \E i \in 1..MaxPending, choice \in Choices("warning") \cup Choices("block") :
          UserRespond(i, choice)

Spec == Init /\ [][Next]_vars

----------------------------------------------------------------------------
(* SpecState: the guard's public operations over snapshots that exercise    *)
(* the derivation of GuardState: a model without a percentage, models in    *)
(* either order, percentages on both sides of two pairs of thresholds, and  *)
(* the guard switched on and off independently of the configuration.        *)

StateThresholds == { [warningThreshold |-> 20, blockThreshold |-> 19],
                     [warningThreshold |-> 19, blockThreshold |-> 10] }

StateConfigs == { [ warningThreshold |-> th.warningThreshold,
                    blockThreshold |-> th.blockThreshold,
                    guardEnabled |-> TRUE ] : th \in StateThresholds }

StateModelLists ==
    { << >>,
      << ModelQuotaInfo("m1", None) >>,
      << ModelQuotaInfo("m1", Some(19)), ModelQuotaInfo("m2", Some(20)) >>,
      << ModelQuotaInfo("m2", Some(0)), ModelQuotaInfo("m1", Some(21)) >> }

StatePromptCredits == { None, Some([remainingPercentage |-> 20]) }

StateSnapshots == { [ models |-> ms, promptCredits |-> pc ] :
                       ms \in StateModelLists, pc \in StatePromptCredits }

InitState == \E cfg \in StateConfigs : InitWith(cfg)

NextState ==
    \/ \E snapshot \in StateSnapshots : UpdateSnapshot(snapshot)
    \/ \E cfg \in StateConfigs : UpdateConfig(cfg)
    \/ ToggleGuard
    \/ CheckAndWarn
    \/ \E i \in 1..MaxPending, choice \in Choices("warning") \cup Choices("block") :
          UserRespond(i, choice)

SpecState == InitState /\ [][NextState]_vars

----------------------------------------------------------------------------
(* SpecClassify: the two classifications applied to every percentage of a   *)
(* dense range (negative, zero, each threshold and its neighbours, absent)  *)
(* under every pair of thresholds with blockThreshold <= warningThreshold.  *)

ClassifyThresholds == {0, 10, 20}

ClassifyConfigs ==
    { cfg \in { [ warningThreshold |-> w, blockThreshold |-> b, guardEnabled |-> TRUE ] :
                   w \in ClassifyThresholds, b \in ClassifyThresholds } :
         cfg.blockThreshold <= cfg.warningThreshold }

ClassifyPcts == {None} \cup { Some(p) : p \in {-10, 0, 1, 9, 10, 11, 19, 20, 21} }

ClassifySnapshots ==
    { [ models |-> << ModelQuotaInfo("m1", p) >>, promptCredits |-> None ] :
         p \in ClassifyPcts }
    \cup { [ models |-> << >>, promptCredits |-> Some([remainingPercentage |-> p[1]]) ] :
              p \in ClassifyPcts \ {None} }

\* checkModel applied to one model.
ClassifyModel(model) ==
    /\ ret' = Ret("checkModel", None, "none", Some(checkModel(model, config)), "none", {})
    /\ UNCHANGED << lastSnapshot, config, guardState, acknowledgments,
                    lastSeenPercentages, lastBlockShown, now, pending, staleAcks, severeAcks, clearedAcks, hostVars >>

\* analyzeQuotaState applied to one snapshot.
ClassifySnapshot(snapshot) ==
    /\ guardState' = analyzeQuotaState(snapshot, config)
    /\ ret' = Quiet("analyzeQuotaState")
    /\ UNCHANGED << lastSnapshot, config, acknowledgments, lastSeenPercentages,
                    lastBlockShown, now, pending, staleAcks, severeAcks, clearedAcks, hostVars >>

InitClassify == \E cfg \in ClassifyConfigs : InitWith(cfg)

NextClassify ==
    \/ \E p \in ClassifyPcts : ClassifyModel(ModelQuotaInfo("m1", p))
    \/ \E snapshot \in ClassifySnapshots : ClassifySnapshot(snapshot)

SpecClassify == InitClassify /\ [][NextClassify]_vars

----------------------------------------------------------------------------
(* SpecAlert: shouldShowAlert applied to every check of a range of          *)
(* percentages, against every acknowledgment of a range of levels,          *)
(* percentages and ages, under the default thresholds (20% and 2%).  The    *)
(* ranges hold both sides of the ten-minute and of the five-point edge.     *)

AlertConfig == [ warningThreshold |-> 200, blockThreshold |-> 20, guardEnabled |-> TRUE ]

AlertAcks ==
    { [ level |-> "warning", timestamp |-> StartTime, percentage |-> p ] :
         p \in {100, 150, 151, 200} }
    \cup { [ level |-> "critical", timestamp |-> StartTime, percentage |-> p ] :
              p \in {10, 20} }
    \cup { [ level |-> "blocked", timestamp |-> StartTime, percentage |-> 0 ] }

AlertAges == {0, 1, WarningRealertMs - 1, WarningRealertMs, WarningRealertMs + 1}

AlertPcts == {0, 10, 20, 21, 99, 100, 101, 150, 200}

InitAlert ==
    \E ack \in {None} \cup { Some(a) : a \in AlertAcks }, age \in AlertAges :
        /\ lastSnapshot = None
        /\ config = AlertConfig
        /\ guardState = [ level |-> "normal", modelsAtRisk |-> << >>,
                          lowestQuota |-> InitialLowestQuota, lowestQuotaModel |-> None,
                          guardActive |-> AlertConfig.guardEnabled ]
        /\ acknowledgments = [ id \in Ids |-> IF id = "m1" THEN ack ELSE None ]
        /\ lastSeenPercentages = [ id \in Ids |-> None ]
        /\ lastBlockShown = 0
        /\ now = StartTime + age
        /\ pending = << >>
        /\ staleAcks = {}
        /\ severeAcks = [ id \in Ids |->
                            IF id = "m1" /\ ack /= None
                                  /\ ack[1].level \in {"critical", "blocked"}
                            THEN Some(ack[1].level) ELSE None ]
        /\ clearedAcks = [ id \in Ids |-> None ]
        /\ ret = Quiet("constructor")
        /\ InitHost

\* shouldShowAlert applied to the check of one model.
ApplyShouldShowAlert(model) ==
    LET check == checkModel(model, config)
    IN  /\ ret' = Ret("shouldShowAlert",
                      Some(shouldShowAlert(check, acknowledgments, now)),
                      "none", Some(check), "none", {})
        /\ UNCHANGED << lastSnapshot, config, guardState, acknowledgments,
                        lastSeenPercentages, lastBlockShown, now, pending,
                        staleAcks, severeAcks, clearedAcks, hostVars >>

NextAlert == \E p \in AlertPcts : ApplyShouldShowAlert(ModelQuotaInfo("m1", Some(p)))

SpecAlert == InitAlert /\ [][NextAlert]_vars

----------------------------------------------------------------------------
(* SpecTime: the guard over time.  One model moves between 0%, 1.9%, 2.0%   *)
(* and 4.0% under thresholds 2.0% and 1.9%, the prompt-credits pool is      *)
(* absent or exhausted, and the clock visits both sides of the ten-minute   *)
(* re-alert and of the one-hour expiry.                                     *)

TimeConfig == [ warningThreshold |-> 20, blockThreshold |-> 19, guardEnabled |-> TRUE ]

TimeSnapshots ==
    { [ models |-> << ModelQuotaInfo("m1", Some(p)) >>, promptCredits |-> None ] :
         p \in {0, 19, 20, 40} }
    \cup { [ models |-> << ModelQuotaInfo("m1", Some(20)) >>,
             promptCredits |-> Some([remainingPercentage |-> 0]) ] }

TimePoints ==
    { StartTime + d : d \in { WarningRealertMs, WarningRealertMs + 1,
                               WarningAckMaxAge, WarningAckMaxAge + 1 } }

InitTime == InitWith(TimeConfig)

NextTime ==
    \/ \E snapshot \in TimeSnapshots : UpdateSnapshot(snapshot)
    \/ CheckAndWarn
    \/ \E i \in 1..MaxPending, choice \in Choices("warning") \cup Choices("block") :
          UserRespond(i, choice)
    \/ ClearDismissedWarnings
    \/ \E t \in TimePoints : Tick(t - now, StartTime + WarningAckMaxAge + 1)

SpecTime == InitTime /\ [][NextTime]_vars

----------------------------------------------------------------------------
(* SpecCooldown: the guard around the block cooldown.  One model moves      *)
(* between 0%, 1.9%, 2.0% and 4.0% and the clock visits the last            *)
(* millisecond inside and the first outside two successive cooldowns.       *)

CooldownSnapshots ==
    { [ models |-> << ModelQuotaInfo("m1", Some(p)) >>, promptCredits |-> None ] :
         p \in {0, 19, 20, 40} }

CooldownPoints ==
    { StartTime + d : d \in { blockCooldown - 1, blockCooldown,
                               2 * blockCooldown - 1, 2 * blockCooldown } }

NextCooldown ==
    \/ \E snapshot \in CooldownSnapshots : UpdateSnapshot(snapshot)
    \/ CheckAndWarn
    \/ \E i \in 1..MaxPending, choice \in Choices("warning") \cup Choices("block") :
          UserRespond(i, choice)
    \/ \E t \in CooldownPoints : Tick(t - now, StartTime + 2 * blockCooldown)

SpecCooldown == InitTime /\ [][NextCooldown]_vars

----------------------------------------------------------------------------
(* SpecScenario: the scenario of a model acknowledged at 1.5% and reported  *)
(* at 5.0% afterwards, under blockThreshold 2 and warningThreshold 10.  One *)
(* model moves between 0%, 1.5% and 5.0% and the clock can pass one block   *)
(* cooldown.                                                                *)

ScenarioConfig == [ warningThreshold |-> 100, blockThreshold |-> 20, guardEnabled |-> TRUE ]

ScenarioSnapshots ==
    { [ models |-> << ModelQuotaInfo("m1", Some(p)) >>, promptCredits |-> None ] :
         p \in {0, 15, 50} }

InitScenario == InitWith(ScenarioConfig)

NextScenario ==
    \/ \E snapshot \in ScenarioSnapshots : UpdateSnapshot(snapshot)
    \/ CheckAndWarn
    \/ \E i \in 1..MaxPending, choice \in Choices("warning") \cup Choices("block") :
          UserRespond(i, choice)
    \/ Tick(blockCooldown, StartTime + blockCooldown)

SpecScenario == InitScenario /\ [][NextScenario]_vars

----------------------------------------------------------------------------
(* Properties *)

\* C1 (SpecClassify).  With blockThreshold <= warningThreshold, both
\* classifications (the level checkModel returns for a model's percentage and
\* the level analyzeQuotaState derives from lowestQuota) give: p <= 0 blocked,
\* 0 < p <= blockThreshold critical, blockThreshold < p <= warningThreshold
\* warning, anything else normal; and a lower percentage never gets a less
\* severe level.
C1_Classification ==
    LET asClaimed(p, level) ==
            /\ p <= 0 => level = "blocked"
            /\ (0 < p /\ p <= config.blockThreshold) => level = "critical"
            /\ (config.blockThreshold < p /\ p <= config.warningThreshold)
                  => level = "warning"
            /\ (p > 0 /\ p > config.blockThreshold /\ p > config.warningThreshold)
                  => level = "normal"
        severity(p) == levelOrder(checkModel(ModelQuotaInfo("m1", p), config).level)
        ints == { p[1] : p \in ClassifyPcts \ {None} }
    IN  /\ config.blockThreshold <= config.warningThreshold
        /\ ret.op = "checkModel"
              => asClaimed(pctOf(ret.check[1].model), ret.check[1].level)
        /\ asClaimed(guardState.lowestQuota, guardState.level)
        /\ \A p \in ClassifyPcts, q \in ClassifyPcts :
              pctOf(ModelQuotaInfo("m1", p)) <= pctOf(ModelQuotaInfo("m1", q))
                 => severity(p) >= severity(q)
        /\ \A p \in ints, q \in ints :
              p <= q => levelOrder(analyzeLevel(p, config))
                           >= levelOrder(analyzeLevel(q, config))

\* C1 witness: checkModel has classified a percentage lying exactly on a
\* positive blockThreshold, below a larger warningThreshold, as critical, and
\* analyzeQuotaState has classified a lowestQuota lying exactly on the
\* warningThreshold as warning.
C1_Witness ==
    /\ ret.op = "checkModel"
    /\ config.blockThreshold > 0
    /\ config.blockThreshold < config.warningThreshold
    /\ ret.check[1].model.remainingPercentage = Some(config.blockThreshold)
    /\ ret.check[1].level = "critical"
    /\ guardState.lowestQuota = config.warningThreshold
    /\ guardState.level = "warning"

\* C2 (SpecState).  In every reachable state the level of the guard state is
\* the classification of its lowestQuota against the current thresholds.
C2_LevelMatchesCurrentThresholds ==
    LET p == guardState.lowestQuota
        claimed == IF p <= 0 THEN "blocked"
                   ELSE IF p <= config.blockThreshold THEN "critical"
                   ELSE IF p <= config.warningThreshold THEN "warning"
                   ELSE "normal"
    IN  guardState.level = claimed

\* C3 (SpecState).  After updateSnapshot(s) the guard state is determined by s
\* and the current configuration: lowestQuota is the least percentage among
\* the models of s and the prompt-credits pool (100 when there is none, a
\* model without a percentage counting as 100), modelsAtRisk is, in order, the
\* models of s and then the synthetic prompt_credits model whose percentage is
\* at or below warningThreshold, the level is the classification of
\* lowestQuota and guardActive is the configured guardEnabled.
C3_StateFromSnapshot ==
    ret.op = "updateSnapshot" =>
        LET s == lastSnapshot[1]
            entries == s.models
                         \o (IF s.promptCredits = None THEN << >>
                             ELSE << pcVirtualModel(s.promptCredits[1].remainingPercentage) >>)
            pct(m) == IF m.remainingPercentage = None THEN 1000
                      ELSE m.remainingPercentage[1]
            atRisk(m) == pct(m) <= config.warningThreshold
            pcts == { pct(entries[i]) : i \in 1..Len(entries) } \cup {1000}
            least == CHOOSE x \in pcts : \A y \in pcts : x <= y
        IN  /\ guardState.lowestQuota = least
            /\ guardState.modelsAtRisk = SelectSeq(entries, atRisk)
            /\ guardState.level =
                  (IF least <= 0 THEN "blocked"
                   ELSE IF least <= config.blockThreshold THEN "critical"
                   ELSE IF least <= config.warningThreshold THEN "warning"
                   ELSE "normal")
            /\ guardState.guardActive = config.guardEnabled

\* C3 witness: a snapshot that follows an earlier one (a reset of m2 was
\* detected) has produced three at-risk entries, the prompt-credits pool
\* exactly on warningThreshold among them, and lowestQuota 1.9.
C3_Witness ==
    /\ ret.op = "updateSnapshot"
    /\ "m2" \in ret.resets
    /\ Len(guardState.modelsAtRisk) = 3
    /\ guardState.modelsAtRisk[3].modelId = PROMPT_CREDITS
    /\ guardState.lowestQuota = 19

\* C4 as stated (Spec).  On updateSnapshot, for every id of the snapshot (a
\* model id or prompt_credits): a reset is detected iff a last-observed
\* percentage exists and current >= last + 2.0; a detected reset clears the
\* id's acknowledgment and anything else leaves it in place.
C4_ResetIffJump_AsStated ==
    [][ ret'.op = "updateSnapshot" =>
          LET s == lastSnapshot'[1]
              entries == s.models
                           \o (IF s.promptCredits = None THEN << >>
                               ELSE << pcVirtualModel(s.promptCredits[1].remainingPercentage) >>)
              jumped(m) == /\ lastSeenPercentages[m.modelId] /= None
                           /\ pctOf(m) >= lastSeenPercentages[m.modelId][1] + 20
          IN  \A i \in 1..Len(entries) :
                 LET m == entries[i]
                 IN  /\ (m.modelId \in ret'.resets) <=> jumped(m)
                     /\ jumped(m) => acknowledgments'[m.modelId] = None
                     /\ ~jumped(m) => acknowledgments'[m.modelId]
                                         = acknowledgments[m.modelId]
      ]_vars

\* C4 amended (Spec).  As C4, except that the acknowledgment of prompt_credits
\* is also cleared, without a jump of its own, when a reset is detected for
\* any model of the same snapshot.
C4_ResetIffJump ==
    [][ ret'.op = "updateSnapshot" =>
          LET s == lastSnapshot'[1]
              entries == s.models
                           \o (IF s.promptCredits = None THEN << >>
                               ELSE << pcVirtualModel(s.promptCredits[1].remainingPercentage) >>)
              jumped(m) == /\ lastSeenPercentages[m.modelId] /= None
                           /\ pctOf(m) >= lastSeenPercentages[m.modelId][1] + 20
              modelJumped == \E j \in 1..Len(s.models) : jumped(s.models[j])
          IN  \A i \in 1..Len(entries) :
                 LET m == entries[i]
                 IN  /\ (m.modelId \in ret'.resets) <=> jumped(m)
                     /\ jumped(m) => acknowledgments'[m.modelId] = None
                     /\ (~jumped(m) /\ ~(m.modelId = PROMPT_CREDITS /\ modelJumped))
                           => acknowledgments'[m.modelId] = acknowledgments[m.modelId]
                     /\ (m.modelId = PROMPT_CREDITS /\ modelJumped)
                           => acknowledgments'[m.modelId] = None
      ]_vars

\* C4 witness: updateSnapshot has detected a reset of m1 on a jump of exactly
\* 2.0 (from 0 to 2.0) and of nothing else, m1 has no acknowledgment, and the
\* acknowledgment of m2, which did not jump, is in place.
C4_Witness ==
    /\ ret.op = "updateSnapshot"
    /\ ret.resets = {"m1"}
    /\ lastSeenPercentages["m1"] = Some(20)
    /\ acknowledgments["m1"] = None
    /\ acknowledgments["m2"] /= None

\* C5 (Spec).  When updateSnapshot detects a reset for at least one model, the
\* acknowledgments it removes are exactly those of the ids with a detected
\* reset and that of prompt_credits; every other id's acknowledgment is
\* unchanged.
C5_ResetFrame ==
    [][ (ret'.op = "updateSnapshot" /\ ret'.resets \cap ModelIds /= {}) =>
          LET s == lastSnapshot'[1]
              jumpedModels ==
                  { s.models[i].modelId : i \in
                      { j \in 1..Len(s.models) :
                          /\ lastSeenPercentages[s.models[j].modelId] /= None
                          /\ pctOf(s.models[j])
                                >= lastSeenPercentages[s.models[j].modelId][1] + 20 } }
          IN  /\ jumpedModels /= {}
              /\ \A id \in Ids :
                    IF id \in jumpedModels \cup {PROMPT_CREDITS}
                    THEN acknowledgments'[id] = None
                    ELSE acknowledgments'[id] = acknowledgments[id]
      ]_vars

\* C5 witness: updateSnapshot has detected a reset of m1 only, in a snapshot
\* that also carries the prompt-credits pool; neither m1 nor prompt_credits has
\* an acknowledgment and the critical acknowledgment of m2 has survived.
C5_Witness ==
    /\ ret.op = "updateSnapshot"
    /\ ret.resets = {"m1"}
    /\ lastSnapshot[1].promptCredits /= None
    /\ acknowledgments["m1"] = None
    /\ acknowledgments[PROMPT_CREDITS] = None
    /\ acknowledgments["m2"] /= None
    /\ acknowledgments["m2"][1].level = "critical"

C7_NoAckFromBeforeReset ==
    \A id \in Ids : acknowledgments[id] /= None => id \notin staleAcks

\* C8 (SpecState).  A checkAndWarn call made while guardActive is false
\* returns true, shows nothing, leaves no prompt awaiting an answer and changes
\* no acknowledgment.
C8_DisabledAllows ==
    [][ (ret'.op = "checkAndWarn" /\ ~guardState.guardActive) =>
          /\ ret'.allow = Some(TRUE)
          /\ ret'.shown = "none"
          /\ pending' = pending
          /\ acknowledgments' = acknowledgments
      ]_vars

\* C8 witness: checkAndWarn has returned true without showing anything while
\* the guard was off and the latest snapshot had a model at 0%.
C8_Witness ==
    /\ ret.op = "checkAndWarn"
    /\ ~guardState.guardActive
    /\ ret.allow = Some(TRUE)
    /\ ret.shown = "none"
    /\ lastSnapshot /= None
    /\ \E i \in 1..Len(lastSnapshot[1].models) :
          lastSnapshot[1].models[i].remainingPercentage = Some(0)

\* C9 (SpecState).  A checkAndWarn call made before any snapshot exists, or
\* when no model and no prompt-credits pool of the latest snapshot is at or
\* below warningThreshold, returns true, shows nothing and changes nothing of
\* the guard.
C9_NothingAtRiskAllows ==
    [][ LET noneAtRisk ==
              \/ lastSnapshot = None
              \/ LET s == lastSnapshot[1]
                 IN  /\ \A i \in 1..Len(s.models) :
                           (IF s.models[i].remainingPercentage = None THEN 1000
                            ELSE s.models[i].remainingPercentage[1])
                              > config.warningThreshold
                     /\ s.promptCredits /= None =>
                           s.promptCredits[1].remainingPercentage
                              > config.warningThreshold
        IN  (ret'.op = "checkAndWarn" /\ noneAtRisk) =>
               /\ ret'.allow = Some(TRUE)
               /\ ret'.shown = "none"
               /\ UNCHANGED << lastSnapshot, config, guardState, acknowledgments,
                               lastSeenPercentages, lastBlockShown, pending >>
      ]_vars

\* C9 witness: with the guard active, checkAndWarn has returned true without
\* showing anything before any snapshot was received.
C9_Witness ==
    /\ ret.op = "checkAndWarn"
    /\ guardState.guardActive
    /\ lastSnapshot = None
    /\ ret.allow = Some(TRUE)
    /\ ret.shown = "none"

\* C10 (Spec).  The model checkAndWarn evaluates is, among the at-risk entries
\* of the latest snapshot (its models in order, then prompt_credits), the first
\* one that has the lowest percentage.
C10_FirstLowestSelected ==
    (ret.op = "checkAndWarn" /\ ret.check /= None) =>
        LET s == lastSnapshot[1]
            entries == s.models
                         \o (IF s.promptCredits = None THEN << >>
                             ELSE << pcVirtualModel(s.promptCredits[1].remainingPercentage) >>)
            atRisk(m) == pctOf(m) <= config.warningThreshold
            E == SelectSeq(entries, atRisk)
            lowest(k) == \A j \in 1..Len(E) : pctOf(E[k]) <= pctOf(E[j])
            first == CHOOSE k \in 1..Len(E) :
                        lowest(k) /\ \A j \in 1..(k - 1) : ~lowest(j)
        IN  /\ Len(E) > 0
            /\ ret.check[1].model = E[first]

\* C10 witness: checkAndWarn has evaluated m2 where m2 and the prompt-credits
\* pool shared the lowest percentage, 1.9, and m1, listed first, was at risk at
\* 2.0.
C10_Witness ==
    /\ ret.op = "checkAndWarn"
    /\ ret.check /= None
    /\ ret.check[1].model.modelId = "m2"
    /\ lastSnapshot[1].promptCredits = Some([remainingPercentage |-> 19])
    /\ lastSnapshot[1].models[1].remainingPercentage = Some(20)
    /\ lastSnapshot[1].models[2].remainingPercentage = Some(19)

\* C11 (Spec).  With the guard active, a checkAndWarn call whose selected
\* model has no acknowledgment presents an alert: the warning prompt when the
\* model is in the warning band, the blocking prompt or the cooldown notice
\* when it is at or below blockThreshold.
C11_NoAckAlerts ==
    [][ ( /\ ret'.op = "checkAndWarn"
          /\ guardState.guardActive
          /\ ret'.check /= None
          /\ acknowledgments[ret'.check[1].model.modelId] = None ) =>
          LET p == pctOf(ret'.check[1].model)
          IN  /\ p <= config.warningThreshold
              /\ (p > 0 /\ p > config.blockThreshold) => ret'.shown = "warning"
              /\ (p <= 0 \/ p <= config.blockThreshold)
                    => ret'.shown \in {"block", "notice"}
      ]_vars

\* C11 witness: checkAndWarn has issued the cooldown notice for a model that
\* has no acknowledgment.
C11_Witness ==
    /\ ret.op = "checkAndWarn"
    /\ guardState.guardActive
    /\ ret.shown = "notice"
    /\ acknowledgments[ret.check[1].model.modelId] = None

\* C12 (SpecAlert).  When the check's level is strictly more severe than the
\* acknowledged level (normal < warning < critical < blocked), shouldShowAlert
\* returns true whatever the acknowledgment's age and percentage.
C12_EscalationShows ==
    LET severity(level) == CASE level = "normal" -> 0 [] level = "warning" -> 1
                             [] level = "critical" -> 2 [] level = "blocked" -> 3
    IN  ( /\ ret.op = "shouldShowAlert"
          /\ acknowledgments[ret.check[1].model.modelId] /= None
          /\ severity(ret.check[1].level)
                > severity(acknowledgments[ret.check[1].model.modelId][1].level) )
           => ret.allow = Some(TRUE)

\* C12 witness: shouldShowAlert has returned true for a blocked check against a
\* critical acknowledgment one millisecond old.
C12_Witness ==
    /\ ret.op = "shouldShowAlert"
    /\ ret.allow = Some(TRUE)
    /\ ret.check[1].level = "blocked"
    /\ acknowledgments["m1"] /= None
    /\ acknowledgments["m1"][1].level = "critical"
    /\ now - acknowledgments["m1"][1].timestamp = 1

\* C14 (SpecAlert).  For a check at warning level against an acknowledgment of
\* the same or a higher level, shouldShowAlert returns true iff more than
\* 600000 ms have passed since the acknowledgment or the percentage is more
\* than 5 points below the acknowledged one.
C14_WarningRealert ==
    ( /\ ret.op = "shouldShowAlert"
      /\ ret.check[1].level = "warning"
      /\ acknowledgments[ret.check[1].model.modelId] /= None ) =>
        LET ack == acknowledgments[ret.check[1].model.modelId][1]
            elapsed == now - ack.timestamp
            drop == ack.percentage - ret.check[1].model.remainingPercentage[1]
        IN  ret.allow = Some(elapsed > 600000 \/ drop > 50)

\* C14 witness: shouldShowAlert has returned false at exactly 600000 ms and
\* exactly 5 points below the acknowledged percentage.
C14_Witness ==
    /\ ret.op = "shouldShowAlert"
    /\ ret.allow = Some(FALSE)
    /\ ret.check[1].level = "warning"
    /\ acknowledgments["m1"] /= None
    /\ now - acknowledgments["m1"][1].timestamp = 600000
    /\ acknowledgments["m1"][1].percentage
          - ret.check[1].model.remainingPercentage[1] = 50

\* C13 (SpecTime).  While a critical or blocked acknowledgment has been
\* recorded for a model and no reset has cleared it since, a checkAndWarn that
\* finds the model at critical or blocked level, no more severe than that
\* acknowledgment, shows nothing, whatever the time elapsed; one that finds it
\* at blocked after an acknowledgment at critical is not suppressed.
C13_SevereAckSuppresses ==
    [][ (ret'.op = "checkAndWarn" /\ ret'.check /= None) =>
          LET level == ret'.check[1].level
              acked == severeAcks[ret'.check[1].model.modelId]
          IN  /\ ( /\ acked /= None
                   /\ level \in {"critical", "blocked"}
                   /\ (level = "blocked" => acked[1] = "blocked") )
                    => ret'.shown = "none"
              /\ (acked = Some("critical") /\ level = "blocked")
                    => ret'.shown /= "none"
      ]_vars

\* C17 (SpecCooldown).  A critical or blocked check that is not suppressed and
\* happens less than 15000 ms after the last blocking prompt was shown issues
\* the notice, returns false, opens no prompt, records no acknowledgment and
\* leaves the cooldown timestamp where it was.
C17_CooldownNotice ==
    [][ ( /\ ret'.op = "checkAndWarn"
          /\ ret'.check /= None
          /\ ret'.check[1].level \in {"critical", "blocked"}
          /\ shouldShowAlert(ret'.check[1], acknowledgments, now)
          /\ now - lastBlockShown < 15000 ) =>
          /\ ret'.shown = "notice"
          /\ ret'.allow = Some(FALSE)
          /\ UNCHANGED << pending, acknowledgments, lastBlockShown >>
      ]_vars

\* C17 witness: checkAndWarn has issued the notice and returned false 14999 ms
\* after the last blocking prompt.
C17_Witness ==
    /\ ret.op = "checkAndWarn"
    /\ ret.shown = "notice"
    /\ ret.allow = Some(FALSE)
    /\ now - lastBlockShown = 14999

\* C19 (SpecTime).  clearDismissedWarnings removes exactly the acknowledgments
\* at warning level that are more than 3600000 ms old; every other
\* acknowledgment, the last-observed percentages and the guard state are
\* unchanged.
C19_HousekeepingFrame ==
    [][ ret'.op = "clearDismissedWarnings" =>
          /\ \A id \in Ids :
                IF /\ acknowledgments[id] /= None
                   /\ acknowledgments[id][1].level = "warning"
                   /\ now - acknowledgments[id][1].timestamp > 3600000
                THEN acknowledgments'[id] = None
                ELSE acknowledgments'[id] = acknowledgments[id]
          /\ UNCHANGED << lastSeenPercentages, guardState, lastSnapshot, config,
                          lastBlockShown, pending >>
      ]_vars

\* C19 witness: clearDismissedWarnings has run with the model in the warning
\* band holding no acknowledgment while the blocked acknowledgment of
\* prompt_credits, more than an hour old, is still stored.
C19_Witness ==
    /\ ret.op = "clearDismissedWarnings"
    /\ acknowledgments["m1"] = None
    /\ lastSeenPercentages["m1"] = Some(20)
    /\ acknowledgments[PROMPT_CREDITS] /= None
    /\ acknowledgments[PROMPT_CREDITS][1].level = "blocked"
    /\ now - acknowledgments[PROMPT_CREDITS][1].timestamp > 3600000

\* C20 (SpecTime).  An id for which a critical or blocked acknowledgment has
\* been recorded, and whose acknowledgment no reset has cleared since, has an
\* acknowledgment stored at critical or blocked level.
C20_SevereAckKept ==
    \A id \in Ids :
        severeAcks[id] /= None =>
            /\ acknowledgments[id] /= None
            /\ acknowledgments[id][1].level \in {"critical", "blocked"}

\* C15 (SpecTime).  A checkAndWarn call whose alert for the selected model is
\* suppressed returns true, shows neither a prompt nor the notice, and leaves
\* the acknowledgments and the cooldown timestamp unchanged.
C15_SuppressedAllows ==
    [][ ( /\ ret'.op = "checkAndWarn"
          /\ guardState.guardActive
          /\ ret'.check /= None
          /\ ~shouldShowAlert(ret'.check[1], acknowledgments, now) ) =>
          /\ ret'.allow = Some(TRUE)
          /\ ret'.shown = "none"
          /\ UNCHANGED << acknowledgments, lastBlockShown, pending >>
      ]_vars

\* C15 witness: checkAndWarn has returned true and shown nothing for a model
\* at critical level whose critical acknowledgment is more than an hour old.
C15_Witness ==
    /\ ret.op = "checkAndWarn"
    /\ ret.allow = Some(TRUE)
    /\ ret.shown = "none"
    /\ ret.check /= None
    /\ ret.check[1].level = "critical"
    /\ acknowledgments[ret.check[1].model.modelId] /= None
    /\ acknowledgments[ret.check[1].model.modelId][1].level = "critical"
    /\ now - acknowledgments[ret.check[1].model.modelId][1].timestamp > 3600000

\* C16 (SpecCooldown).  Whatever the user's answer to a blocking prompt, an
\* acknowledgment with the check's level and percentage is recorded for the
\* model, and checkAndWarn returns true exactly for 'Proceed Anyway'.
C16_BlockPromptOutcome ==
    [][ ( /\ ret'.op = "respond"
          /\ ret'.check[1].level \in {"critical", "blocked"} ) =>
          LET id == ret'.check[1].model.modelId
          IN  /\ acknowledgments'[id] /= None
              /\ acknowledgments'[id][1].level = ret'.check[1].level
              /\ acknowledgments'[id][1].percentage
                    = ret'.check[1].model.remainingPercentage[1]
              /\ acknowledgments'[id][1].timestamp = now
              /\ \A other \in Ids \ {id} :
                    acknowledgments'[other] = acknowledgments[other]
              /\ ret'.allow = Some(ret'.choice = "Proceed Anyway")
      ]_vars

\* C16 witness: the blocking prompt for a model at 1.9% was dismissed, false
\* was returned and the acknowledgment {critical, 1.9} is stored.
C16_Witness ==
    /\ ret.op = "respond"
    /\ ret.choice = "dismissed"
    /\ ret.allow = Some(FALSE)
    /\ ret.check[1].level = "critical"
    /\ acknowledgments["m1"] /= None
    /\ acknowledgments["m1"][1].level = "critical"
    /\ acknowledgments["m1"][1].percentage = 19

\* C18 (SpecTime).  After the warning prompt, 'Continue' or a dismissal records
\* the acknowledgment {warning, current percentage} for the model and returns
\* true; 'Show Details' records nothing, leaves every acknowledgment as it was
\* and returns false.
C18_WarningPromptOutcome ==
    [][ ( /\ ret'.op = "respond"
          /\ ret'.check[1].level = "warning" ) =>
          LET id == ret'.check[1].model.modelId
          IN  IF ret'.choice = "Show Details"
              THEN /\ acknowledgments' = acknowledgments
                   /\ ret'.allow = Some(FALSE)
              ELSE /\ ret'.choice \in {"Continue", "dismissed"}
                   /\ acknowledgments' =
                         [ acknowledgments EXCEPT ![id] =
                              << [ level |-> "warning", timestamp |-> now,
                                   percentage |->
                                      ret'.check[1].model.remainingPercentage[1] ] >> ]
                   /\ ret'.allow = Some(TRUE)
      ]_vars

\* C18 witness: 'Show Details' was chosen on a re-alert of a warning, false was
\* returned and the earlier warning acknowledgment is still stored.
C18_Witness ==
    /\ ret.op = "respond"
    /\ ret.choice = "Show Details"
    /\ ret.allow = Some(FALSE)
    /\ acknowledgments["m1"] /= None
    /\ acknowledgments["m1"][1].level = "warning"
    /\ now - acknowledgments["m1"][1].timestamp > 600000


\* C21 (SpecCooldown).  While a checkAndWarn call awaits the answer to its
\* blocking prompt, a second call made less than 15000 ms after that prompt
\* was opened, for a critical or blocked model without acknowledgment, opens
\* no prompt of its own: the open prompts stay exactly as they were and the
\* second call issues the notice.  (lastBlockShown is the time the latest
\* blocking prompt was opened, so a call within the cooldown of a prompt still
\* open is within the cooldown of lastBlockShown.)
C21_OnePromptInCooldown ==
    [][ ( /\ ret'.op = "checkAndWarn"
          /\ ret'.check /= None
          /\ ret'.check[1].level \in {"critical", "blocked"}
          /\ acknowledgments[ret'.check[1].model.modelId] = None
          /\ \E i \in 1..Len(pending) : pending[i].kind = "block"
          /\ now - lastBlockShown < 15000 ) =>
          /\ pending' = pending
          /\ ret'.shown = "notice"
      ]_vars

\* C21 witness: a second checkAndWarn, 14999 ms after the blocking prompt of
\* the first was opened and while that prompt is still open, has issued the
\* notice for a model without acknowledgment.
C21_Witness ==
    /\ ret.op = "checkAndWarn"
    /\ ret.shown = "notice"
    /\ acknowledgments[ret.check[1].model.modelId] = None
    /\ Len(pending) = 1
    /\ pending[1].kind = "block"
    /\ now - lastBlockShown = 14999

\* C22 as stated (SpecCooldown).  A checkAndWarn call that selects a model
\* reported at 0% (or below) while the model's acknowledgment is at critical
\* finds GuardState.level blocked and opens a new blocking prompt.
C22_EscalationPrompts_AsStated ==
    [][ ( /\ ret'.op = "checkAndWarn"
          /\ ret'.check /= None
          /\ pctOf(ret'.check[1].model) <= 0
          /\ acknowledgments[ret'.check[1].model.modelId] /= None
          /\ acknowledgments[ret'.check[1].model.modelId][1].level = "critical" ) =>
          /\ guardState.level = "blocked"
          /\ ret'.shown = "block"
      ]_vars

\* C22 amended (SpecCooldown).  As C22, except that the call opens the new
\* blocking prompt only when at least 15000 ms have passed since the last
\* blocking prompt was opened; before that it issues the cooldown notice and
\* returns false.  Either way the acknowledgment at critical does not suppress
\* the alert.
C22_EscalationPrompts ==
    [][ ( /\ ret'.op = "checkAndWarn"
          /\ ret'.check /= None
          /\ pctOf(ret'.check[1].model) <= 0
          /\ acknowledgments[ret'.check[1].model.modelId] /= None
          /\ acknowledgments[ret'.check[1].model.modelId][1].level = "critical" ) =>
          /\ guardState.level = "blocked"
          /\ ret'.check[1].level = "blocked"
          /\ IF now - lastBlockShown < 15000
             THEN ret'.shown = "notice" /\ ret'.allow = Some(FALSE) /\ pending' = pending
             ELSE /\ ret'.shown = "block"
                  /\ Len(pending') = Len(pending) + 1
                  /\ pending'[Len(pending')].check.level = "blocked"
      ]_vars

\* C22 witness: a blocking prompt for the blocked level is open for a model
\* whose stored acknowledgment is at critical with 1.9%.
C22_Witness ==
    /\ ret.op = "checkAndWarn"
    /\ ret.shown = "block"
    /\ ret.check[1].level = "blocked"
    /\ acknowledgments["m1"] /= None
    /\ acknowledgments["m1"][1].level = "critical"
    /\ acknowledgments["m1"][1].percentage = 19
    /\ guardState.level = "blocked"

\* C23 (SpecScenario).  With blockThreshold 2 and warningThreshold 10: an
\* updateSnapshot that reports at 5.0% a model last seen at 1.5% and
\* acknowledged at critical with 1.5% deletes the acknowledgment and leaves
\* GuardState.level at warning; and the first checkAndWarn after an
\* updateSnapshot that deleted such an acknowledgment opens the warning prompt
\* for the model.
C23_ReevaluatesAfterReset ==
    [][ /\ ( /\ ret'.op = "updateSnapshot"
             /\ acknowledgments["m1"] /= None
             /\ acknowledgments["m1"][1].level = "critical"
             /\ acknowledgments["m1"][1].percentage = 15
             /\ lastSeenPercentages["m1"] = Some(15)
             /\ lastSnapshot'[1].models[1].remainingPercentage = Some(50) ) =>
             /\ acknowledgments'["m1"] = None
             /\ guardState'.level = "warning"
        /\ ( /\ ret'.op = "checkAndWarn"
             /\ clearedAcks["m1"] = Some([ level |-> "critical", percentage |-> 15 ])
             /\ lastSnapshot[1].models[1].remainingPercentage = Some(50) ) =>
             /\ ret'.check /= None
             /\ ret'.check[1].level = "warning"
             /\ ret'.shown = "warning"
      ]_vars

----------------------------------------------------------------------------
\* The detectProcessInfo call of the discovery specification.
TheCall == detections[1]

Calling == Len(detections) = 1

\* C24: a detectProcessInfo(maxRetries) call returns none only after exactly
\* maxRetries failed attempts, and at every moment of every run it has issued
\* at most maxRetries process-list commands, one per attempt begun, whatever
\* mix of command errors, parse failures, empty port lists and failed probes
\* occurs.
C24_RetriesBounded ==
    Calling =>
        /\ TheCall.psCmds <= TheCall.maxRetries
        /\ TheCall.pc /= "returned" => TheCall.psCmds = TheCall.attempt + 1
        /\ (TheCall.pc = "returned" /\ TheCall.result = None) =>
               /\ TheCall.failed = TheCall.maxRetries
               /\ TheCall.psCmds = TheCall.maxRetries
               /\ TheCall.attempt = TheCall.maxRetries

\* A call with three attempts returned none after one attempt failed on its
\* probes, the attempts having been separated by two delays.
C24_Witness ==
    /\ Calling
    /\ TheCall.pc = "returned"
    /\ TheCall.result = None
    /\ TheCall.maxRetries = DefaultMaxRetries
    /\ TheCall.delays = 2
    /\ TheCall.probed /= << >>

\* C25: in the attempt in which parsing, port listing and a probe succeed,
\* which is the first such attempt, detectProcessInfo returns at once the
\* extensionPort and csrfToken of that attempt's parse and, as connectPort, the
\* port of that attempt's list whose probe answered; every earlier attempt has
\* failed, and once it has returned the call issues no further command, probe
\* or delay.
C25_ReturnsFirstSuccess ==
    [][ Calling =>
          /\ (TheCall.pc = "probe" /\ Len(detections') = 1 /\
              detections'[1].probed /= << >> /\
              detections'[1].probed[Len(detections'[1].probed)].working) =>
                 /\ detections'[1].pc = "returned"
                 /\ detections'[1].result =
                       Some([ extensionPort |-> TheCall.info[1].extensionPort,
                              connectPort |-> probedPort(TheCall),
                              csrfToken |-> TheCall.info[1].csrfToken ])
                 /\ \E k \in DOMAIN TheCall.ports : TheCall.ports[k] = probedPort(TheCall)
                 /\ detections'[1].failed = TheCall.attempt
                 /\ detections'[1].psCmds = TheCall.psCmds
                 /\ detections'[1].portCmds = TheCall.portCmds
                 /\ detections'[1].delays = TheCall.delays
          /\ (TheCall.pc = "returned" /\ TheCall.result /= None) =>
                 \/ detections' = detections
                 \/ \E maxRetries \in 0..MaxRetries :
                        detections' = << startCall(maxRetries, None) >> ]_vars

\* The second attempt of a call succeeded on the second port of its list.
C25_Witness ==
    /\ Calling
    /\ TheCall.pc = "returned"
    /\ TheCall.result /= None
    /\ TheCall.failed = 1
    /\ Len(TheCall.probed) = 2
    /\ TheCall.result[1].connectPort = TheCall.ports[2]

\* C26: in an attempt the ports are probed one at a time in the order of the
\* parsed list, and none after the first that works: the ports probed so far
\* are a prefix of the list, only the last of them can have worked, and the
\* connectPort returned is that one.
C26_ProbesInOrder ==
    Calling =>
        /\ Len(TheCall.probed) <= Len(TheCall.ports)
        /\ \A k \in DOMAIN TheCall.probed :
               /\ TheCall.probed[k].port = TheCall.ports[k]
               /\ k < Len(TheCall.probed) => ~TheCall.probed[k].working
        /\ TheCall.pc = "probe" =>
               /\ Len(TheCall.probed) < Len(TheCall.ports)
               /\ \A k \in DOMAIN TheCall.probed : ~TheCall.probed[k].working
        /\ (TheCall.pc = "returned" /\ TheCall.result /= None) =>
               /\ TheCall.probed /= << >>
               /\ TheCall.probed[Len(TheCall.probed)] =
                     [ port |-> TheCall.result[1].connectPort, working |-> TRUE ]

\* A list of three ports whose second port worked: the third was never probed.
C26_Witness ==
    /\ Calling
    /\ TheCall.pc = "returned"
    /\ TheCall.result /= None
    /\ Len(TheCall.ports) = 3
    /\ Len(TheCall.probed) = 2
    /\ ~TheCall.probed[1].working

\* The step ends the attempt under way as failed.
AttemptFails ==
    /\ detections'[1].failed = TheCall.failed + 1
    /\ IF TheCall.attempt < TheCall.maxRetries - 1
       THEN /\ detections'[1].pc = "delay"
            /\ detections'[1].attempt = TheCall.attempt
       ELSE /\ detections'[1].pc = "returned"
            /\ detections'[1].result = None

\* C27: detectProcessInfo never throws or rejects.  A process-list command
\* that fails or yields nothing parseable, a port-list command that fails or
\* yields no port, and a probe that errs, times out or throws on the last
\* port each end the attempt as failed and nothing more; after the delay the
\* next attempt runs.
C27_FailuresEndAttempt ==
    [][ (Calling /\ Len(detections') = 1) =>
          /\ detections'[1].pc \in { "ps", "ports", "probe", "delay", "returned" }
          /\ (TheCall.pc = "ps" /\ detections'[1].pc /= "ports") => AttemptFails
          /\ (TheCall.pc = "ports" /\ detections'[1].pc /= "probe") => AttemptFails
          /\ (TheCall.pc = "probe" /\ detections'[1].pc /= "probe" /\
              detections'[1].result = None) => AttemptFails
          /\ TheCall.pc = "delay" =>
                 /\ detections'[1].pc = "ps"
                 /\ detections'[1].attempt = TheCall.attempt + 1
                 /\ detections'[1].failed = TheCall.failed ]_vars

\* The first attempt ended on a probe that threw, with a port of its list not
\* yet probed, and the call is in the delay before its second attempt.
C27_Witness ==
    /\ Calling
    /\ TheCall.pc = "delay"
    /\ TheCall.failed = 1
    /\ Len(TheCall.probed) = 1
    /\ Len(TheCall.ports) = 2
    /\ TheCall.probed[1].port = BadPort

----------------------------------------------------------------------------
\* C28: a status fetch that fails (fetchQuota takes its catch branch: network
\* error, timeout, non-JSON body or a payload it cannot use) returns null and
\* invokes the error callback, does not invoke the update callback, and leaves
\* the QuotaManager's last snapshot and the guard's snapshot, GuardState and
\* acknowledgments as they were.
C28_FailedFetchKeepsState ==
    [][ (ret'.op = "fetchQuota" /\ Len(requests') < Len(requests) /\
         ret'.returned = None) =>
            /\ "error" \in ret'.called
            /\ "update" \notin ret'.called
            /\ quotaManager'.lastSnapshot = quotaManager.lastSnapshot
            /\ lastSnapshot' = lastSnapshot
            /\ guardState' = guardState
            /\ acknowledgments' = acknowledgments ]_vars

----------------------------------------------------------------------------
\* C29: a reconnect requested while an earlier discovery is in flight cancels
\* it or ignores its result: no two discoveries run their retry loops at the
\* same time, and at most one discovery's result initialises the quota source
\* and starts polling per reconnect.
C29_SingleFlightDiscovery ==
    /\ Len(detections) <= 1
    /\ resultsUsed <= 1

----------------------------------------------------------------------------
----------------------------------------------------------------------------
\* C31: a model whose upstream remaining fraction is absent has an absent
\* remainingPercentage in the snapshot, and the guard puts no number in its
\* place: the update that stores the snapshot leaves the model's last-observed
\* percentage as it was, detects no reset for it, does not count it at risk
\* and does not make it the lowestQuotaModel.
C31_UnknownStaysUnknown ==
    [][ /\ parseModels(<< Labelled(None) >>, 1)[1].remainingPercentage = None
        /\ (ret'.op = "fetchQuota" /\ "update" \in ret'.called) =>
               \A k \in DOMAIN lastSnapshot'[1].models :
                   LET model == lastSnapshot'[1].models[k]
                   IN  model.remainingPercentage = None =>
                           /\ lastSeenPercentages'[model.modelId] =
                                  lastSeenPercentages[model.modelId]
                           /\ clearedAcks'[model.modelId] = None
                           /\ \A j \in DOMAIN guardState'.modelsAtRisk :
                                  guardState'.modelsAtRisk[j] /= model
                           /\ guardState'.lowestQuotaModel /= Some(model) ]_vars

----------------------------------------------------------------------------
\* C32: on every platform, parseProcessInfo takes the token from the first
\* source that matches, in the order csrf_token flag, path segment of the
\* api_server_url flag, first UUID of the command line, together with the
\* port of the same entry; and it finds nothing when no entry of the process
\* list has both a port flag and a token.
C32_TokenPriority ==
    (Calling /\ TheCall.pc /= "ps") =>
        LET port(e) == FirstOf(e.flags.extension_server_port, e.flags.grpc_server_port)
            token(e) == FirstOf(e.flags.csrf_token,
                                FirstOf(e.flags.api_server_url, e.flags.uuid))
            out == TheCall.stdout
        IN  /\ TheCall.info /= None =>
                   \E k \in DOMAIN out :
                       /\ port(out[k]) = Some(TheCall.info[1].extensionPort)
                       /\ token(out[k]) = Some(TheCall.info[1].csrfToken)
            /\ (\A k \in DOMAIN out : port(out[k]) = None \/ token(out[k]) = None) =>
                   TheCall.info = None

----------------------------------------------------------------------------
\* C33: provided every command, probe and delay completes, a detectProcessInfo
\* call always eventually returns; in each attempt it issues at most one
\* port-list command and probes no port twice, and it waits only between
\* attempts: once per attempt that failed with another one left, never after
\* the last attempt or after a success.
C33_TerminatesWithinBudget ==
    /\ [](Calling =>
            /\ TheCall.portCmds <= 1
            /\ \A j, k \in DOMAIN TheCall.probed :
                   TheCall.probed[j].port = TheCall.probed[k].port => j = k
            /\ TheCall.pc \in { "ps", "ports", "probe" } => TheCall.delays = TheCall.attempt
            /\ TheCall.pc = "delay" =>
                   /\ TheCall.delays = TheCall.attempt + 1
                   /\ TheCall.attempt < TheCall.maxRetries - 1
            /\ (TheCall.pc = "returned" /\ TheCall.result /= None) =>
                   TheCall.delays = TheCall.attempt
            /\ (TheCall.pc = "returned" /\ TheCall.result = None) =>
                   TheCall.delays = IF TheCall.maxRetries > 0
                                    THEN TheCall.maxRetries - 1 ELSE 0)
    /\ (Calling /\ TheCall.pc /= "returned") ~> (Calling /\ TheCall.pc = "returned")

\* The third attempt of a call succeeded on the second of the two distinct
\* ports that three port lines named, after two delays.
C33_Witness ==
    /\ Calling
    /\ TheCall.pc = "returned"
    /\ TheCall.result /= None
    /\ TheCall.delays = 2
    /\ TheCall.ports = << 2, 1 >>
    /\ Len(TheCall.probed) = 2

----------------------------------------------------------------------------
----------------------------------------------------------------------------
(* SpecFrame: every operation of the guard, with one caller more than the   *)
(* other specifications so that two checkAndWarn calls can await a prompt   *)
(* at once.  One model moves between 1.9%, 2.0% and 4.0% under thresholds   *)
(* 2.0% and 1.9%, the guard is switched by configuration and by toggle, and *)
(* the clock visits the end of the block cooldown and the first millisecond *)
(* past the one-hour expiry.                                                *)

FrameConfigs == { [ TimeConfig EXCEPT !.guardEnabled = on ] : on \in BOOLEAN }

FrameSnapshots ==
    { [ models |-> << ModelQuotaInfo("m1", Some(p)) >>, promptCredits |-> None ] :
         p \in {19, 20, 40} }

FramePoints == { StartTime + blockCooldown, StartTime + WarningAckMaxAge + 1 }

InitFrame == InitGuard(TimeConfig) /\ HostWith("unix", MaxPending + 1)

NextFrame ==
    \/ \E snapshot \in FrameSnapshots : UpdateSnapshot(snapshot)
    \/ \E cfg \in FrameConfigs : UpdateConfig(cfg)
    \/ ToggleGuard
    \/ ClearDismissedWarnings
    \/ CheckAndWarn
    \/ \E i \in 1..(MaxPending + 1), choice \in Choices("warning") \cup Choices("block") :
          UserRespond(i, choice)
    \/ \E t \in FramePoints : Tick(t - now, StartTime + WarningAckMaxAge + 1)

SpecFrame == InitFrame /\ [][NextFrame]_vars

\* The operations of the guard that are not a prompt's continuation and that
\* touch the acknowledgments or the configuration.
Housekeepers == { "updateSnapshot", "updateConfig", "toggleGuard",
                  "clearDismissedWarnings" }

\* C35 (SpecFrame): an acknowledgment entry is created or overwritten only
\* by the user's response to a prompt of checkAndWarn, for the prompt's model;
\* updateSnapshot, updateConfig, toggleGuard and clearDismissedWarnings leave
\* every entry as it was or remove it.
C35_OnlyResponsesWrite ==
    [][ \A id \in Ids :
           LET before == acknowledgments[id]
               after == acknowledgments'[id]
           IN  /\ ret'.op \in Housekeepers => after \in { None, before }
               /\ (after /= None /\ after /= before) =>
                     /\ ret'.op = "respond"
                     /\ ret'.check[1].model.modelId = id
                     /\ after = Some(newAck(ret'.check[1], now)) ]_vars

\* updateSnapshot has just removed an entry recorded while the guard was
\* switched off in the configuration.
C35_Witness ==
    /\ ret.op = "updateSnapshot"
    /\ clearedAcks["m1"] /= None
    /\ ~config.guardEnabled

\* C36 (SpecState): a checkAndWarn call, from its entry to the return after
\* the user's answer, leaves the stored snapshot, the GuardState and the last-observed
\* percentages as they were; it works on the lowest model at risk only: the
\* one prompt it may open is for that model, the one acknowledgment it may
\* write is that model's, and lastBlockShown moves only when it opens the
\* blocking prompt.
C36_CallTouchesOneModel ==
    [][ ret'.op \in { "checkAndWarn", "respond" } =>
          /\ UNCHANGED << lastSnapshot, guardState, lastSeenPercentages >>
          /\ \A id \in Ids :
                acknowledgments'[id] /= acknowledgments[id] =>
                   /\ ret'.op = "respond"
                   /\ id = ret'.check[1].model.modelId
          /\ ret'.op = "respond" => UNCHANGED lastBlockShown
          /\ ret'.op = "checkAndWarn" =>
                /\ lastBlockShown' /= lastBlockShown => ret'.shown = "block"
                /\ ret'.check /= None =>
                      ret'.check[1].model =
                         worstModelOf(getModelsRequiringAttention(lastSnapshot, config))
                /\ \/ pending' = pending
                   \/ /\ ret'.shown \in { "warning", "block" }
                      /\ pending' = Append(pending, [ kind |-> ret'.shown,
                                                      check |-> ret'.check[1],
                                                      stale |-> FALSE ])
      ]_vars

\* C36 witness: the user's answer has acknowledged m1 while m2 and the prompt
\* credits are at risk as well and have no acknowledgment.
C36_Witness ==
    /\ ret.op = "respond"
    /\ ret.check[1].model.modelId = "m1"
    /\ acknowledgments["m1"] /= None
    /\ acknowledgments["m2"] = None
    /\ acknowledgments[PROMPT_CREDITS] = None
    /\ Len(getModelsRequiringAttention(lastSnapshot, config)) = 3

----------------------------------------------------------------------------
(* SpecRisk: updateSnapshot under thresholds from 0% to 100%, over          *)
(* snapshots that are empty or hold models and prompt credits at 0%, on     *)
(* both sides of 2.0%, at 100% or without a percentage.                     *)

RiskConfigs ==
    { cfg \in { [ warningThreshold |-> w, blockThreshold |-> b, guardEnabled |-> TRUE ] :
                   w \in {0, 20, InitialLowestQuota}, b \in {0, 19} } :
         cfg.blockThreshold <= cfg.warningThreshold }

RiskSnapshots ==
    { [ models |-> ms, promptCredits |-> pc ] :
         ms \in { << >>, << ModelQuotaInfo("m1", Some(InitialLowestQuota)),
                            ModelQuotaInfo("m2", None) >> }
                \cup { << ModelQuotaInfo("m1", Some(p)) >> : p \in {0, 20, 21} },
         pc \in { None, Some([remainingPercentage |-> 20]),
                  Some([remainingPercentage |-> InitialLowestQuota]) } }

InitRisk == \E cfg \in RiskConfigs : InitWith(cfg)

NextRisk ==
    \/ \E snapshot \in RiskSnapshots : UpdateSnapshot(snapshot)
    \/ \E cfg \in RiskConfigs : UpdateConfig(cfg)

SpecRisk == InitRisk /\ [][NextRisk]_vars

\* C37 (SpecRisk): in the state an updateSnapshot leaves, the level is normal
\* exactly when modelsAtRisk is empty, and when modelsAtRisk is not empty
\* lowestQuotaModel is defined and is one of its entries.
C37_LevelAndRiskAgree ==
    ret.op = "updateSnapshot" =>
       /\ (guardState.level = "normal") <=> (guardState.modelsAtRisk = << >>)
       /\ guardState.modelsAtRisk /= << >> =>
             /\ guardState.lowestQuotaModel /= None
             /\ \E i \in DOMAIN guardState.modelsAtRisk :
                   guardState.modelsAtRisk[i] = guardState.lowestQuotaModel[1]

\* C38 (SpecState): toggleGuard leaves isGuardActive() at the value it returns,
\* every operation other than toggleGuard and updateConfig leaves
\* isGuardActive() as it was, and a checkAndWarn call made while it is false
\* allows the action without showing anything.
C38_ToggleSticks ==
    [][ /\ ret'.op = "toggleGuard" => guardState'.guardActive = ret'.allow[1]
        /\ ret'.op \notin { "toggleGuard", "updateConfig" } =>
              guardState'.guardActive = guardState.guardActive
        /\ (ret'.op = "checkAndWarn" /\ ~guardState.guardActive) =>
              /\ ret'.allow = Some(TRUE)
              /\ ret'.shown = "none"
      ]_vars

\* C39 (SpecExt): at most one polling timer is set at any time, and while the
\* configuration last processed by the config-change handler has
\* enabled = false no polling timer is set, whatever discovery was under way
\* when the change arrived.
C39_PollingFollowsEnabled ==
    /\ Cardinality(timers) <= 1
    /\ ~settings.enabled => timers = {}

\* C40 (SpecFrame): at most one blocking prompt is open, shown and awaiting
\* the user's choice, at any time.
C40_OneBlockingPrompt ==
    Cardinality({ i \in DOMAIN pending : pending[i].kind = "block" }) <= 1

====
